---- MODULE Spec2Model ----
(***************************************************************************)
(* A model of the bpt B+-tree map.  Two variants of the tree engine live   *)
(* in the repository and both are modelled here, driven in lock step by    *)
(* the same sequence of public calls and compared to a reference map:      *)
(*                                                                         *)
(*   - the capacity-parameterized engine (leaf.rs, internal.rs, node.rs),  *)
(*     state `gmap`/`gheap`; its map facade is not among the sources and   *)
(*     is modelled from the specification (Map_* definitions);             *)
(*   - the fixed-capacity engine with its facade (lib.rs), state           *)
(*     `fmap`/`fheap`.                                                     *)
(*                                                                         *)
(* Leaves are reference counted cells in the code; here they live in an    *)
(* arena (`gheap`, `fheap`) addressed by integer handles, and every        *)
(* Rc/Weak to a leaf is the handle of that leaf.  Indices are 0-based as   *)
(* in the code; TLA+ sequences are 1-based, so element i is s[i + 1].      *)
(*                                                                         *)
(* Operations return records: the arena and node as the call leaves them   *)
(* (the code mutates in place), the call's results, and `fault`, true if   *)
(* the call reaches a fail-fast branch (unwrap of None, unreachable!, a    *)
(* failed assertion or borrow).  A result used several times is bound as   *)
(* the parameter of a local operator, LET k(r) == .. IN k(call).           *)
(***************************************************************************)
EXTENDS Integers, Sequences, FiniteSets, TLC

VARIABLES gmap, gheap, fmap, fheap, ref, last, keys

vars == <<gmap, gheap, fmap, fheap, ref, last, keys>>

----------------------------------------------------------------------------
(* Bounds of the model *)

\* CAP = 2 * HalfCap + 1 is the node capacity the model is instantiated with.
HalfCap == 2
\* Calls on the map that starts empty use the keys 1..MaxKey.
MaxKey == 4

----------------------------------------------------------------------------
(* Capacities *)

\* const CAP of the capacity-parameterized engine
CAP == 2 * HalfCap + 1
\* let b = CAP / 2 + 1
b == CAP \div 2 + 1
\* const B of the fixed-capacity engine (12 in the source, scaled with HalfCap)
B == HalfCap + 1
\* const CAPACITY = 2 * B - 1
CAPACITY == 2 * B - 1

\* The code never inspects a value (V is an unconstrained type parameter):
\* two values tell a replaced value from a kept one.
Values == {1, 2}
\* Size of the leaf arena: more leaves than the largest tree explored holds.
MaxLeaves == 2 * b * b + b + 3
Handles == 1..MaxLeaves

----------------------------------------------------------------------------
(* Option, ArrayVec and arena helpers *)

\* Option<T>: None is the empty sequence, Some(x) the one-element sequence.
None == <<>>
Some(x) == <<x>>
IsSome(o) == Len(o) = 1

\* An absent prev/next link.
NoLeaf == 0
\* The key read from an empty leaf (a fail-fast branch of the code).
NoKey == 0

\* ArrayVec::insert(idx, x)
VecInsert(s, idx, x) == SubSeq(s, 1, idx) \o <<x>> \o SubSeq(s, idx + 1, Len(s))
\* ArrayVec::remove(idx)
VecRemove(s, idx) == SubSeq(s, 1, idx) \o SubSeq(s, idx + 2, Len(s))
\* s[idx] = x
VecSet(s, idx, x) == [s EXCEPT ![idx + 1] = x]
\* ArrayVec::pop leaves this behind
VecFront(s) == SubSeq(s, 1, Len(s) - 1)
VecLast(s) == s[Len(s)]

Min(S) == CHOOSE x \in S : \A y \in S : x <= y

\* A slot of the arena that holds no leaf.
FreeLeaf == [used |-> FALSE, entries |-> <<>>, prev |-> NoLeaf, next |-> NoLeaf]
EmptyHeap == [h \in Handles |-> FreeLeaf]

\* Handles that a new allocation may take: slots holding no leaf and not
\* the target of a Weak link of a leaf that is still alive (the allocation
\* of a dropped Rc is not released while a Weak to it exists).
FreeHandles(H) ==
    {h \in Handles : /\ ~H[h].used
                     /\ \A g \in Handles : H[g].used => H[g].prev # h /\ H[g].next # h}
Alloc(H) == Min(FreeHandles(H))

----------------------------------------------------------------------------
(* lib.rs: insert_or_split and linear_search_by (shared helpers) *)

\* insert_or_split that puts the new element first in the new buffer
insert_or_split_front(buf, idx, new, cap, bb) ==
    IF Len(buf) # cap
    THEN [buf |-> VecInsert(buf, idx, new), new_buf |-> None]
    ELSE IF idx < bb
         THEN [buf |-> VecInsert(SubSeq(buf, 1, bb - 1), idx, new),
               new_buf |-> Some(SubSeq(buf, bb, Len(buf)))]
         ELSE [buf |-> SubSeq(buf, 1, bb),
               new_buf |-> Some(VecInsert(SubSeq(buf, bb + 1, Len(buf)), 0, new))]

\* insert_or_split that cuts a full buffer one element late when the new
\* element goes to the retained half
insert_or_split_uneven(buf, idx, new, cap, bb) ==
    IF Len(buf) # cap
    THEN [buf |-> VecInsert(buf, idx, new), new_buf |-> None]
    ELSE IF idx < bb
         THEN [buf |-> VecInsert(SubSeq(buf, 1, bb), idx, new),
               new_buf |-> Some(SubSeq(buf, bb + 1, Len(buf)))]
         ELSE [buf |-> SubSeq(buf, 1, bb),
               new_buf |-> Some(VecInsert(SubSeq(buf, bb + 1, Len(buf)), idx - bb, new))]

\* fn insert_or_split(buf, idx, new) -> Option<ArrayVec>; cap is the buffer's
\* capacity and bb the minimum fill.  Returns the buffer as left behind and
\* the new buffer, if any.
insert_or_split(buf, idx, new, cap, bb) ==
    IF Len(buf) # cap
    THEN [buf |-> VecInsert(buf, idx, new), new_buf |-> None]
    ELSE IF idx < bb
         THEN [buf |-> VecInsert(SubSeq(buf, 1, bb - 1), idx, new),
               new_buf |-> Some(SubSeq(buf, bb, Len(buf)))]
         ELSE [buf |-> SubSeq(buf, 1, bb),
               new_buf |-> Some(VecInsert(SubSeq(buf, bb + 1, Len(buf)), idx - bb, new))]

\* fn linear_search_by / fn query_idx over a sequence of keys: Ok(idx) of the
\* key equal to q, or Err(idx) of the first greater key (the length if none).
linear_search_by(ks, q) ==
    LET at(hits) ==
            IF hits = {} THEN [ok |-> FALSE, idx |-> Len(ks)]
            ELSE LET m(i) == [ok |-> ks[i + 1] = q, idx |-> i] IN m(Min(hits))
    IN at({i \in 0..(Len(ks) - 1) : ks[i + 1] >= q})

\* The keys of a sequence of entries (key, value).
KeysOf(entries) == [i \in 1..Len(entries) |-> entries[i][1]]

----------------------------------------------------------------------------
(* leaf.rs: Leaf<K, V, CAP> *)

\* A leaf cell holding entries with the given links.
LeafData(entries, prev, next) ==
    [used |-> TRUE, entries |-> entries, prev |-> prev, next |-> next]

\* Leaf::new(entry)
Leaf_new(H, entry) ==
    LET at(h) == [heap |-> [H EXCEPT ![h] = LeafData(<<entry>>, NoLeaf, NoLeaf)],
                  leaf |-> h]
    IN at(Alloc(H))

\* RefCell's borrow flag of every cell: 0 if not borrowed, n > 0 under n
\* shared borrows, -1 under the exclusive borrow.
Unborrowed == [h \in Handles |-> 0]

\* RcCell::get, Shared::borrow: fails fast under the exclusive borrow
RcCell_get(F, h) == [flags |-> [F EXCEPT ![h] = @ + 1], fault |-> F[h] < 0]

\* RcCell::get_mut, Shared::borrow_mut: fails fast under any borrow
RcCell_get_mut(F, h) == [flags |-> [F EXCEPT ![h] = 0 - 1], fault |-> F[h] # 0]

\* The end of a Ref or of a RefMut
Ref_drop(F, h) == [F EXCEPT ![h] = IF @ < 0 THEN 0 ELSE @ - 1]

RECURSIVE Borrowing(_, _)
\* True if a borrow of the sequence fails fast; a step is <<request, cell>>.
Borrowing(F, steps) ==
    IF steps = <<>> THEN FALSE
    ELSE LET s == Head(steps)
             on(r) == r.fault \/ Borrowing(r.flags, Tail(steps))
         IN IF s[1] = "drop" THEN Borrowing(Ref_drop(F, s[2]), Tail(steps))
            ELSE IF s[1] = "get" THEN on(RcCell_get(F, s[2]))
            ELSE on(RcCell_get_mut(F, s[2]))

\* The borrows of a Leaf::insert that keeps `this` while it links the new leaf
Leaf_insert_borrows_held(h) ==
    << <<"get_mut", h>>, <<"get_mut", h>>, <<"drop", h>>, <<"drop", h>> >>

\* The borrows of a Leaf::insert that splits: `this` is dropped before the
\* cell is borrowed again to set next.
Leaf_insert_borrows(h) ==
    << <<"get_mut", h>>, <<"drop", h>>, <<"get_mut", h>>, <<"drop", h>> >>

\* The borrows of Leaf::balance_or_drain: both cells exclusively, together
Leaf_balance_or_drain_borrows(this, next) ==
    << <<"get_mut", this>>, <<"get_mut", next>>, <<"drop", next>>, <<"drop", this>> >>

\* The borrows of Leaf::get: one shared borrow, held by the caller
Leaf_get_borrows(h) == << <<"get", h>>, <<"drop", h>> >>

\* Leaf::first: the first key, NoKey where the code fails fast.
Leaf_first(H, h) == IF H[h].entries = <<>> THEN NoKey ELSE H[h].entries[1][1]
\* Leaf::last
Leaf_last(H, h) == IF H[h].entries = <<>> THEN NoKey ELSE VecLast(H[h].entries)[1]

\* fn query_idx(slice, query)
query_idx(entries, q) == linear_search_by(KeysOf(entries), q)

\* Node::get for Leaf
Leaf_get(H, h, q) ==
    LET found(r) == [res |-> IF r.ok THEN Some(H[h].entries[r.idx + 1]) ELSE None,
                     fault |-> FALSE]
    IN found(query_idx(H[h].entries, q))

\* The re-link of a split that forgets the old next of this leaf
Leaf_split_link_end(H, h, n, lower, upper) ==
    [H EXCEPT ![h].entries = lower,
              ![h].next = n,
              ![n] = LeafData(upper, h, NoLeaf)]

\* The links of Leaf::insert when the leaf splits: the new leaf n takes the
\* upper entries, prev = this leaf, next = this leaf's old next; this leaf's
\* next = n.
Leaf_split_link(H, h, n, lower, upper) ==
    [H EXCEPT ![h].entries = lower,
              ![h].next = n,
              ![n] = LeafData(upper, h, H[h].next)]

\* Node::insert for Leaf: (previous entry, new sibling leaf)
Leaf_insert(H, h, new_entry) ==
    LET entries == H[h].entries
        linked(n, s) ==
            [heap |-> Leaf_split_link(H, h, n, s.buf, s.new_buf[1]),
             node |-> h, prev |-> None, new |-> Some(n),
             fault |-> Borrowing(Unborrowed, Leaf_insert_borrows(h))]
        split(s) ==
            IF ~IsSome(s.new_buf)
            THEN [heap |-> [H EXCEPT ![h].entries = s.buf],
                  node |-> h, prev |-> None, new |-> None, fault |-> FALSE]
            ELSE linked(Alloc(H), s)
        found(r) ==
            IF r.ok
            THEN [heap |-> [H EXCEPT ![h].entries = VecSet(entries, r.idx, new_entry)],
                  node |-> h, prev |-> Some(entries[r.idx + 1]), new |-> None,
                  fault |-> FALSE]
            ELSE split(insert_or_split(entries, r.idx, new_entry, CAP, b))
    IN found(query_idx(entries, new_entry[1]))

\* remove for Leaf that reports need_merge from the length before the removal
Leaf_remove_before(H, h, q) ==
    LET entries == H[h].entries
        found(r) ==
            IF ~r.ok
            THEN [heap |-> H, node |-> h, res |-> None, need_merge |-> FALSE,
                  fault |-> FALSE]
            ELSE [heap |-> [H EXCEPT ![h].entries = VecRemove(entries, r.idx)],
                  node |-> h, res |-> Some(entries[r.idx + 1]),
                  need_merge |-> Len(entries) < b, fault |-> FALSE]
    IN found(query_idx(entries, q))

\* Node::remove for Leaf: (removed entry, need_merge)
Leaf_remove(H, h, q) ==
    LET entries == H[h].entries
        found(r) ==
            IF ~r.ok
            THEN [heap |-> H, node |-> h, res |-> None, need_merge |-> FALSE,
                  fault |-> FALSE]
            ELSE [heap |-> [H EXCEPT ![h].entries = VecRemove(entries, r.idx)],
                  node |-> h, res |-> Some(entries[r.idx + 1]),
                  need_merge |-> Len(entries) - 1 < b, fault |-> FALSE]
    IN found(query_idx(entries, q))

\* balance_or_drain for Leaf that leaves this.next at the drained leaf
Leaf_balance_or_drain_unlinked(H, this, next, lacking_next) ==
    LET te == H[this].entries
        ne == H[next].entries
        done(heap, drained) == [heap |-> heap, left |-> this, right |-> next,
                                drained |-> drained, fault |-> FALSE]
    IN
    IF Borrowing(Unborrowed, Leaf_balance_or_drain_borrows(this, next))
    THEN [heap |-> H, left |-> this, right |-> next, drained |-> FALSE, fault |-> TRUE]
    ELSE IF lacking_next /\ Len(te) > b
    THEN done([H EXCEPT ![this].entries = VecFront(te),
                        ![next].entries = VecInsert(ne, 0, VecLast(te))], FALSE)
    ELSE IF ~lacking_next /\ Len(ne) > b
    THEN done([H EXCEPT ![this].entries = te \o <<ne[1]>>,
                        ![next].entries = VecRemove(ne, 0)], FALSE)
    ELSE done([H EXCEPT ![this].entries = te \o ne,
                        ![next].entries = <<>>,
                        ![next].next = NoLeaf], TRUE)

\* Node::balance_or_drain for Leaf; true if next is drained.  The two cells
\* are borrowed exclusively together, which fails fast if they are one cell.
Leaf_balance_or_drain(H, this, next, lacking_next) ==
    LET te == H[this].entries
        ne == H[next].entries
        done(heap, drained) == [heap |-> heap, left |-> this, right |-> next,
                                drained |-> drained, fault |-> FALSE]
    IN
    IF Borrowing(Unborrowed, Leaf_balance_or_drain_borrows(this, next))
    THEN [heap |-> H, left |-> this, right |-> next, drained |-> FALSE, fault |-> TRUE]
    ELSE IF lacking_next /\ Len(te) > b
    THEN done([H EXCEPT ![this].entries = VecFront(te),
                        ![next].entries = VecInsert(ne, 0, VecLast(te))], FALSE)
    ELSE IF ~lacking_next /\ Len(ne) > b
    THEN done([H EXCEPT ![this].entries = te \o <<ne[1]>>,
                        ![next].entries = VecRemove(ne, 0)], FALSE)
    ELSE done([H EXCEPT ![this].entries = te \o ne,
                        ![this].next = H[next].next,
                        ![next].entries = <<>>,
                        ![next].next = NoLeaf], TRUE)

----------------------------------------------------------------------------
(* internal.rs: Internal<K, V, CAP> and the Node contract *)

\* An Internal node is [kind, head, tail, children]: kind is the variant of
\* `Children` ("Leaf": the children are leaf handles, "Internal": they are
\* Internal nodes), head and tail are leaf handles.

\* Node::head / Node::tail of a child of a node of the given kind
Node_head(kind, c) == IF kind = "Leaf" THEN c ELSE c.head
Node_tail(kind, c) == IF kind = "Leaf" THEN c ELSE c.tail

\* Internal::new(leaf)
Internal_new(leaf) ==
    [kind |-> "Leaf", head |-> leaf, tail |-> leaf, children |-> <<leaf>>]

\* wrap that hangs the new sibling one level too deep
Internal_wrap_deep(left, right) ==
    [kind |-> "Internal", head |-> left.head, tail |-> right.tail,
     children |-> <<left, [kind |-> "Internal", head |-> right.head,
                           tail |-> right.tail, children |-> <<right>>]>>]

\* Internal::wrap(left, right)
Internal_wrap(left, right) ==
    [kind |-> "Internal", head |-> left.head, tail |-> right.tail,
     children |-> <<left, right>>]

\* check_lower that lets every query pass
Internal_check_lower_open(H, node, q) ==
    LET at(hf) == [ok |-> TRUE, fault |-> hf = NoKey]
    IN at(Leaf_first(H, node.head))

\* Internal::check_lower: Some(()) iff head.first() <= query
Internal_check_lower(H, node, q) ==
    LET at(hf) == [ok |-> hf <= q, fault |-> hf = NoKey]
    IN at(Leaf_first(H, node.head))

\* pop_depth that never gives the child up
Internal_pop_depth_never(node) == [node |-> node, res |-> None]

\* pop_depth that returns the only child and leaves it in the node
Internal_pop_depth_copy(node) ==
    IF node.kind = "Internal" /\ Len(node.children) = 1
    THEN [node |-> node, res |-> Some(node.children[1])]
    ELSE [node |-> node, res |-> None]

\* Internal::pop_depth: the only child of a node of Internal children
Internal_pop_depth(node) ==
    IF node.kind = "Internal" /\ Len(node.children) = 1
    THEN [node |-> [node EXCEPT !.children = <<>>], res |-> Some(node.children[1])]
    ELSE [node |-> node, res |-> None]

\* The first keys of the head leaves of slice[1..]
HeadKeys(H, kind, slice) ==
    [i \in 1..(Len(slice) - 1) |-> Leaf_first(H, Node_head(kind, slice[i + 1]))]

\* An empty leaf among the first n + 1 keys read by a scan (or all of them)
ScanFault(hk, n) ==
    \E i \in 1..Len(hk) : i <= n + 1 /\ hk[i] = NoKey

\* find_idx that treats Equal as Greater: a query equal to the first key
\* of a child is sent to the child before it.
find_idx_low(H, kind, slice, q) ==
    LET at(hk, r) ==
            [idx |-> IF r.idx < Len(hk) THEN r.idx ELSE Len(slice) - 1,
             fault |-> Len(slice) = 0 \/ ScanFault(hk, r.idx)]
        scan(hk) == at(hk, linear_search_by(hk, q))
    IN scan(HeadKeys(H, kind, slice))

\* fn find_idx(slice, query): the scan of slice[1..] by the first key of each
\* node's head leaf.  Greater => idx, Equal => idx + 1, none => len - 1.
find_idx(H, kind, slice, q) ==
    LET at(hk, r) ==
            [idx |-> IF r.ok THEN r.idx + 1
                     ELSE IF r.idx < Len(hk) THEN r.idx ELSE Len(slice) - 1,
             fault |-> Len(slice) = 0 \/ ScanFault(hk, r.idx)]
        scan(hk) == at(hk, linear_search_by(hk, q))
    IN scan(HeadKeys(H, kind, slice))

\* Internal::child_idx: None if tail.last() < query.  The debug assertion
\* head.first() <= query and the reads of empty leaves are the fault.
Internal_child_idx(H, node, q) ==
    LET at(hf, tl) ==
            IF hf = NoKey \/ tl = NoKey \/ hf > q THEN [res |-> None, fault |-> TRUE]
            ELSE IF tl < q THEN [res |-> None, fault |-> FALSE]
            ELSE LET pick(f) == [res |-> Some(f.idx), fault |-> f.fault]
                 IN pick(find_idx(H, node.kind, node.children, q))
    IN at(Leaf_first(H, node.head), Leaf_last(H, node.tail))

RECURSIVE Internal_get(_, _, _)
\* Node::get for Box<Internal>
Internal_get(H, node, q) ==
    LET at(ci) ==
            IF ~IsSome(ci.res) THEN [res |-> None, fault |-> ci.fault]
            ELSE IF node.kind = "Leaf" THEN Leaf_get(H, node.children[ci.res[1] + 1], q)
            ELSE Internal_get(H, node.children[ci.res[1] + 1], q)
    IN at(Internal_child_idx(H, node, q))

\* Node::insert of a child of a node of the given kind
RECURSIVE Internal_insert(_, _, _)
Node_insert(H, kind, c, entry) ==
    IF kind = "Leaf" THEN Leaf_insert(H, c, entry) ELSE Internal_insert(H, c, entry)

\* fn insert_entry(nodes, entry, prev_out) inside Node::insert for
\* Box<Internal>: the children left behind, the previous entry, and the
\* (children, head, tail) of the new sibling if this node split.
insert_entry(H, kind, nodes, entry) ==
    LET out(r, flt, left, res) ==
            [heap |-> r.heap, nodes |-> left, prev |-> r.prev, res |-> res,
             fault |-> flt]
        sibling(children) ==
            Some([children |-> children,
                  head |-> Node_head(kind, children[1]),
                  tail |-> Node_tail(kind, VecLast(children))])
        split(r, flt, s) ==
            IF ~IsSome(s.new_buf) THEN out(r, flt, s.buf, None)
            ELSE out(r, flt, s.buf, sibling(s.new_buf[1]))
        child(idx, r, flt) ==
            IF ~IsSome(r.new) THEN out(r, flt \/ r.fault, VecSet(nodes, idx, r.node), None)
            ELSE split(r, flt \/ r.fault,
                       insert_or_split(VecSet(nodes, idx, r.node), idx + 1, r.new[1],
                                       CAP, b))
        at(f) == child(f.idx, Node_insert(H, kind, nodes[f.idx + 1], entry), f.fault)
    IN at(find_idx(H, kind, nodes, entry[1]))

\* Node::insert for Box<Internal>: (previous entry, new sibling node)
Internal_insert(H, node, new_entry) ==
    LET at(r) ==
            [heap |-> r.heap,
             node |-> [node EXCEPT
                         !.children = r.nodes,
                         !.tail = IF ~IsSome(r.prev)
                                  THEN Node_tail(node.kind, VecLast(r.nodes))
                                  ELSE node.tail],
             prev |-> r.prev,
             new |-> IF IsSome(r.res)
                     THEN Some([kind |-> node.kind, head |-> r.res[1].head,
                                tail |-> r.res[1].tail, children |-> r.res[1].children])
                     ELSE None,
             fault |-> r.fault]
    IN at(insert_entry(H, node.kind, node.children, new_entry))

\* do_balance_or_drain that borrows from a neighbour of only b children
do_balance_or_drain_greedy(this, next, lacking_next) ==
    IF lacking_next /\ Len(this) >= b
    THEN [this |-> VecFront(this), next |-> VecInsert(next, 0, VecLast(this)),
          drained |-> FALSE]
    ELSE IF ~lacking_next /\ Len(next) >= b
    THEN [this |-> this \o <<next[1]>>, next |-> VecRemove(next, 0), drained |-> FALSE]
    ELSE [this |-> this \o next, next |-> <<>>, drained |-> TRUE]

\* fn do_balance_or_drain(this, next, lacking_next)
do_balance_or_drain(this, next, lacking_next) ==
    IF lacking_next /\ Len(this) > b
    THEN [this |-> VecFront(this), next |-> VecInsert(next, 0, VecLast(this)),
          drained |-> FALSE]
    ELSE IF ~lacking_next /\ Len(next) > b
    THEN [this |-> this \o <<next[1]>>, next |-> VecRemove(next, 0), drained |-> FALSE]
    ELSE [this |-> this \o next, next |-> <<>>, drained |-> TRUE]

\* balance_or_drain that refreshes this.tail but not next.head
Internal_balance_or_drain_stale(H, this, next, lacking_next) ==
    LET at(d) ==
            [heap |-> H,
             left |-> [this EXCEPT !.children = d.this,
                                   !.tail = Node_tail(this.kind, VecLast(d.this))],
             right |-> [next EXCEPT !.children = d.next],
             drained |-> d.drained,
             fault |-> FALSE]
    IN
    IF this.kind # next.kind
    THEN [heap |-> H, left |-> this, right |-> next, drained |-> FALSE, fault |-> TRUE]
    ELSE at(do_balance_or_drain(this.children, next.children, lacking_next))

\* Node::balance_or_drain for Box<Internal> (with fn with_tail_head): move
\* one child or drain, then refresh this.tail and, unless drained, next.head.
Internal_balance_or_drain(H, this, next, lacking_next) ==
    LET at(d) ==
            [heap |-> H,
             left |-> [this EXCEPT !.children = d.this,
                                   !.tail = Node_tail(this.kind, VecLast(d.this))],
             right |-> IF d.drained THEN [next EXCEPT !.children = d.next]
                       ELSE [next EXCEPT !.children = d.next,
                                         !.head = Node_head(next.kind, d.next[1])],
             drained |-> d.drained,
             fault |-> FALSE]
    IN
    IF this.kind # next.kind
    THEN [heap |-> H, left |-> this, right |-> next, drained |-> FALSE, fault |-> TRUE]
    ELSE at(do_balance_or_drain(this.children, next.children, lacking_next))

\* Node::remove and Node::balance_or_drain of children of the given kind
RECURSIVE Internal_remove(_, _, _)
Node_remove(H, kind, c, q) ==
    IF kind = "Leaf" THEN Leaf_remove(H, c, q) ELSE Internal_remove(H, c, q)
Node_balance_or_drain(H, kind, left, right, lacking_next) ==
    IF kind = "Leaf" THEN Leaf_balance_or_drain(H, left, right, lacking_next)
    ELSE Internal_balance_or_drain(H, left, right, lacking_next)

\* remove_entry that pairs a lacking child with its right neighbour where it
\* has one
remove_entry_right(H, kind, children, idx, q, tail) ==
    LET lacking_next == idx # 0 /\ idx = Len(children) - 1
        left_idx == IF lacking_next THEN idx - 1 ELSE idx
        out(heap, kept, res, flt) ==
            [heap |-> heap, children |-> kept,
             tail |-> Node_tail(kind, VecLast(kept)),
             res |-> res, need_merge |-> Len(kept) < b, fault |-> flt]
        merged(r, bal, kept) ==
            out(bal.heap,
                IF bal.drained THEN VecRemove(kept, left_idx + 1) ELSE kept,
                r.res, r.fault \/ bal.fault)
        paired(r, kept, bal) ==
            merged(r, bal, VecSet(VecSet(kept, left_idx, bal.left),
                                  left_idx + 1, bal.right))
        child(r, kept) ==
            IF ~IsSome(r.res)
            THEN [heap |-> H, children |-> children, tail |-> tail, res |-> None,
                  need_merge |-> FALSE, fault |-> r.fault]
            ELSE IF ~r.need_merge
            THEN [heap |-> r.heap, children |-> kept,
                  tail |-> Node_tail(kind, VecLast(kept)),
                  res |-> r.res, need_merge |-> FALSE, fault |-> r.fault]
            ELSE IF Len(kept) - left_idx < 2
            THEN [heap |-> r.heap, children |-> kept, tail |-> tail,
                  res |-> r.res, need_merge |-> TRUE, fault |-> r.fault]
            ELSE paired(r, kept,
                        Node_balance_or_drain(r.heap, kind, kept[left_idx + 1],
                                              kept[left_idx + 2], lacking_next))
        at(r) == child(r, VecSet(children, idx, r.node))
    IN at(Node_remove(H, kind, children[idx + 1], q))

\* fn remove_entry(children, idx, query, tail) inside Node::remove for
\* Box<Internal>: the children and tail left behind, the removed entry and
\* the need_merge flag of this node.
remove_entry(H, kind, children, idx, q, tail) ==
    LET lacking_next == idx # 0
        left_idx == IF idx = 0 THEN 0 ELSE idx - 1
        out(heap, kept, res, flt) ==
            [heap |-> heap, children |-> kept,
             tail |-> Node_tail(kind, VecLast(kept)),
             res |-> res, need_merge |-> Len(kept) < b, fault |-> flt]
        merged(r, bal, kept) ==
            out(bal.heap,
                IF bal.drained THEN VecRemove(kept, left_idx + 1) ELSE kept,
                r.res, r.fault \/ bal.fault)
        paired(r, kept, bal) ==
            merged(r, bal, VecSet(VecSet(kept, left_idx, bal.left),
                                  left_idx + 1, bal.right))
        child(r, kept) ==
            IF ~IsSome(r.res)
            THEN [heap |-> H, children |-> children, tail |-> tail, res |-> None,
                  need_merge |-> FALSE, fault |-> r.fault]
            ELSE IF ~r.need_merge
            THEN [heap |-> r.heap, children |-> kept,
                  tail |-> Node_tail(kind, VecLast(kept)),
                  res |-> r.res, need_merge |-> FALSE, fault |-> r.fault]
            ELSE IF Len(kept) - left_idx < 2
            THEN [heap |-> r.heap, children |-> kept, tail |-> tail,
                  res |-> r.res, need_merge |-> TRUE, fault |-> r.fault]
            ELSE paired(r, kept,
                        Node_balance_or_drain(r.heap, kind, kept[left_idx + 1],
                                              kept[left_idx + 2], lacking_next))
        at(r) == child(r, VecSet(children, idx, r.node))
    IN at(Node_remove(H, kind, children[idx + 1], q))

\* Node::remove for Box<Internal>: (removed entry, need_merge)
Internal_remove(H, node, q) ==
    LET done(ci, r) ==
            [heap |-> r.heap,
             node |-> [node EXCEPT !.children = r.children, !.tail = r.tail],
             res |-> r.res, need_merge |-> r.need_merge,
             fault |-> ci.fault \/ r.fault]
        at(ci) ==
            IF ~IsSome(ci.res)
            THEN [heap |-> H, node |-> node, res |-> None, need_merge |-> FALSE,
                  fault |-> ci.fault]
            ELSE done(ci, remove_entry(H, node.kind, node.children, ci.res[1], q,
                                       node.tail))
    IN at(Internal_child_idx(H, node, q))

\* The leaf handles an Internal node holds strongly: children, head, tail.
RECURSIVE Internal_strong(_)
Internal_strong(node) ==
    {node.head, node.tail} \cup
    (IF node.kind = "Leaf" THEN {node.children[i] : i \in 1..Len(node.children)}
     ELSE UNION {Internal_strong(node.children[i]) : i \in 1..Len(node.children)})

\* Dropping the last Rc of a leaf drops the leaf: slots no longer held
\* strongly become free.
Sweep(H, strong) == [h \in Handles |-> IF h \in strong THEN H[h] ELSE FreeLeaf]

----------------------------------------------------------------------------
(* lib.rs: the fixed-capacity engine.  An InternalNode is [children], a    *)
(* Child is [head_leaf, internal] with internal an Option<InternalNode>,   *)
(* a Root is [tag, body] with tag "Empty", "Leaf" (body = <<leaf>>) or     *)
(* "Internal" (body = <<node>>).                                           *)

\* Leaf::head: the first key, NoKey where first().unwrap() fails
LeafNode_head(H, h) == IF H[h].entries = <<>> THEN NoKey ELSE H[h].entries[1][1]

\* replace_head that swaps the last entry instead of the first
LeafNode_replace_head_last(H, h, entry) ==
    IF H[h].entries = <<>>
    THEN [heap |-> H, prev |-> None, fault |-> TRUE]
    ELSE [heap |-> [H EXCEPT ![h].entries = VecSet(H[h].entries,
                                                   Len(H[h].entries) - 1, entry)],
          prev |-> Some(H[h].entries[1]), fault |-> FALSE]

\* Leaf::replace_head: swap the first entry, returning the old one
LeafNode_replace_head(H, h, entry) ==
    IF H[h].entries = <<>>
    THEN [heap |-> H, prev |-> None, fault |-> TRUE]
    ELSE [heap |-> [H EXCEPT ![h].entries = VecSet(H[h].entries, 0, entry)],
          prev |-> Some(H[h].entries[1]), fault |-> FALSE]

\* Leaf::get
LeafNode_get(H, h, q) ==
    LET found(r) == [res |-> IF r.ok THEN Some(H[h].entries[r.idx + 1]) ELSE None,
                     fault |-> FALSE]
    IN found(linear_search_by(KeysOf(H[h].entries), q))

\* Leaf::insert: (previous entry, new sibling leaf)
LeafNode_insert(H, h, entry) ==
    LET entries == H[h].entries
        linked(n, s) ==
            [heap |-> [H EXCEPT ![h].entries = s.buf,
                                ![h].next = n,
                                ![n] = LeafData(s.new_buf[1], h, H[h].next)],
             prev |-> None, new |-> Some(n),
             fault |-> Borrowing(Unborrowed, Leaf_insert_borrows(h))]
        split(s) ==
            IF ~IsSome(s.new_buf)
            THEN [heap |-> [H EXCEPT ![h].entries = s.buf],
                  prev |-> None, new |-> None, fault |-> FALSE]
            ELSE linked(Alloc(H), s)
        found(r) ==
            IF r.ok
            THEN [heap |-> [H EXCEPT ![h].entries = VecSet(entries, r.idx, entry)],
                  prev |-> Some(entries[r.idx + 1]), new |-> None, fault |-> FALSE]
            ELSE split(insert_or_split(entries, r.idx, entry, CAPACITY, B))
    IN found(linear_search_by(KeysOf(entries), entry[1]))

\* Leaf::remove that takes out the first entry instead of the one found
LeafNode_remove_first(H, h, q) ==
    LET entries == H[h].entries
        found(r) ==
            IF ~r.ok
            THEN [heap |-> H, node |-> None, res |-> None, need_merge |-> FALSE,
                  fault |-> FALSE]
            ELSE [heap |-> [H EXCEPT ![h].entries = VecRemove(entries, 0)],
                  node |-> None, res |-> Some(entries[r.idx + 1]),
                  need_merge |-> Len(entries) - 1 < B, fault |-> FALSE]
    IN found(linear_search_by(KeysOf(entries), q))

\* Leaf::remove: (removed entry, need_merge)
LeafNode_remove(H, h, q) ==
    LET entries == H[h].entries
        found(r) ==
            IF ~r.ok
            THEN [heap |-> H, node |-> None, res |-> None, need_merge |-> FALSE,
                  fault |-> FALSE]
            ELSE [heap |-> [H EXCEPT ![h].entries = VecRemove(entries, r.idx)],
                  node |-> None, res |-> Some(entries[r.idx + 1]),
                  need_merge |-> Len(entries) - 1 < B, fault |-> FALSE]
    IN found(linear_search_by(KeysOf(entries), q))

\* Leaf::balance_or_drain that loses the entry it moves to the right
LeafNode_balance_or_drain_lossy(H, this, next, lacking_next) ==
    LET te == H[this].entries
        ne == H[next].entries
    IN
    IF Borrowing(Unborrowed, Leaf_balance_or_drain_borrows(this, next))
    THEN [heap |-> H, consumed |-> FALSE, fault |-> TRUE]
    ELSE IF lacking_next /\ Len(te) > B
    THEN [heap |-> [H EXCEPT ![this].entries = VecFront(te),
                             ![next].entries = VecInsert(ne, 0, ne[1])],
          consumed |-> FALSE, fault |-> FALSE]
    ELSE IF ~lacking_next /\ Len(ne) > B
    THEN [heap |-> [H EXCEPT ![this].entries = te \o <<ne[1]>>,
                             ![next].entries = VecRemove(ne, 0)],
          consumed |-> FALSE, fault |-> FALSE]
    ELSE [heap |-> [H EXCEPT ![this].entries = te \o ne,
                             ![this].next = H[next].next,
                             ![next].entries = <<>>,
                             ![next].next = NoLeaf],
          consumed |-> TRUE, fault |-> FALSE]

\* Leaf::balance_or_drain that leaves this.next at the drained leaf
LeafNode_balance_or_drain_unlinked(H, this, next, lacking_next) ==
    LET te == H[this].entries
        ne == H[next].entries
    IN
    IF Borrowing(Unborrowed, Leaf_balance_or_drain_borrows(this, next))
    THEN [heap |-> H, consumed |-> FALSE, fault |-> TRUE]
    ELSE IF lacking_next /\ Len(te) > B
    THEN [heap |-> [H EXCEPT ![this].entries = VecFront(te),
                             ![next].entries = VecInsert(ne, 0, VecLast(te))],
          consumed |-> FALSE, fault |-> FALSE]
    ELSE IF ~lacking_next /\ Len(ne) > B
    THEN [heap |-> [H EXCEPT ![this].entries = te \o <<ne[1]>>,
                             ![next].entries = VecRemove(ne, 0)],
          consumed |-> FALSE, fault |-> FALSE]
    ELSE [heap |-> [H EXCEPT ![this].entries = te \o ne,
                             ![next].entries = <<>>,
                             ![next].next = NoLeaf],
          consumed |-> TRUE, fault |-> FALSE]

\* Leaf::balance_or_drain; true if next is drained
LeafNode_balance_or_drain(H, this, next, lacking_next) ==
    LET te == H[this].entries
        ne == H[next].entries
    IN
    IF Borrowing(Unborrowed, Leaf_balance_or_drain_borrows(this, next))
    THEN [heap |-> H, consumed |-> FALSE, fault |-> TRUE]
    ELSE IF lacking_next /\ Len(te) > B
    THEN [heap |-> [H EXCEPT ![this].entries = VecFront(te),
                             ![next].entries = VecInsert(ne, 0, VecLast(te))],
          consumed |-> FALSE, fault |-> FALSE]
    ELSE IF ~lacking_next /\ Len(ne) > B
    THEN [heap |-> [H EXCEPT ![this].entries = te \o <<ne[1]>>,
                             ![next].entries = VecRemove(ne, 0)],
          consumed |-> FALSE, fault |-> FALSE]
    ELSE [heap |-> [H EXCEPT ![this].entries = te \o ne,
                             ![this].next = H[next].next,
                             ![next].entries = <<>>,
                             ![next].next = NoLeaf],
          consumed |-> TRUE, fault |-> FALSE]

\* InternalNode::head_leaf
InternalNode_head_leaf(node) == node.children[1].head_leaf

\* The search of children[1..] by the first key of each child's head_leaf,
\* as done by child_idx and insert; the fault is an empty leaf met on the way.
InternalNode_search(H, node, q) ==
    LET at(hk, r) ==
            [ok |-> r.ok, idx |-> r.idx,
             fault |-> Len(node.children) = 0 \/ ScanFault(hk, r.idx)]
        scan(hk) == at(hk, linear_search_by(hk, q))
    IN scan([i \in 1..(Len(node.children) - 1) |->
                LeafNode_head(H, node.children[i + 1].head_leaf)])

\* child_idx that takes Ok(idx) for Err(idx)
InternalNode_child_idx_err(H, node, q) ==
    LET at(r) == [idx |-> r.idx, fault |-> r.fault]
    IN at(InternalNode_search(H, node, q))

\* InternalNode::child_idx: Ok(idx) => idx + 1, Err(idx) => idx
InternalNode_child_idx(H, node, q) ==
    LET at(r) == [idx |-> IF r.ok THEN r.idx + 1 ELSE r.idx, fault |-> r.fault]
    IN at(InternalNode_search(H, node, q))

RECURSIVE InternalNode_get(_, _, _)
\* InternalNode::get
InternalNode_get(H, node, q) ==
    LET child(c) ==
            IF IsSome(c.internal) THEN InternalNode_get(H, c.internal[1], q)
            ELSE LeafNode_get(H, c.head_leaf, q)
        at(ci) ==
            IF ci.fault THEN [res |-> None, fault |-> TRUE]
            ELSE child(node.children[ci.idx + 1])
    IN at(InternalNode_child_idx(H, node, q))

\* handle_new_child that links the new sibling in before the child
InternalNode_handle_new_child_before(node, idx, child) ==
    LET at(s) ==
            [node |-> [children |-> s.buf],
             new |-> IF IsSome(s.new_buf) THEN Some([children |-> s.new_buf[1]])
                     ELSE None]
    IN
    IF ~IsSome(child) THEN [node |-> node, new |-> None]
    ELSE at(insert_or_split(node.children, idx, child[1], CAPACITY, B))

\* InternalNode::handle_new_child: link the child's new sibling in at idx + 1
InternalNode_handle_new_child(node, idx, child) ==
    LET at(s) ==
            [node |-> [children |-> s.buf],
             new |-> IF IsSome(s.new_buf) THEN Some([children |-> s.new_buf[1]])
                     ELSE None]
    IN
    IF ~IsSome(child) THEN [node |-> node, new |-> None]
    ELSE at(insert_or_split(node.children, idx + 1, child[1], CAPACITY, B))

RECURSIVE InternalNode_insert(_, _, _)
\* InternalNode::insert: (previous entry, new sibling node)
InternalNode_insert(H, node, entry) ==
    LET out(r, hn) ==
            [heap |-> r.heap, node |-> hn.node, prev |-> r.prev, new |-> hn.new,
             fault |-> r.fault]
        inner(idx, c, r) ==
            out(r, InternalNode_handle_new_child(
                       [children |-> VecSet(node.children, idx,
                                            [c EXCEPT !.internal = Some(r.node)])],
                       idx,
                       IF IsSome(r.new)
                       THEN Some([head_leaf |-> InternalNode_head_leaf(r.new[1]),
                                  internal |-> Some(r.new[1])])
                       ELSE None))
        leaf(idx, r) ==
            out(r, InternalNode_handle_new_child(
                       node, idx,
                       IF IsSome(r.new)
                       THEN Some([head_leaf |-> r.new[1], internal |-> None])
                       ELSE None))
        child(idx, c) ==
            IF IsSome(c.internal)
            THEN inner(idx, c, InternalNode_insert(H, c.internal[1], entry))
            ELSE leaf(idx, LeafNode_insert(H, c.head_leaf, entry))
        replaced(rh) ==
            [heap |-> rh.heap, node |-> node, prev |-> rh.prev, new |-> None,
             fault |-> rh.fault]
        at(sr) ==
            IF sr.fault
            THEN [heap |-> H, node |-> node, prev |-> None, new |-> None,
                  fault |-> TRUE]
            ELSE IF sr.ok
            THEN replaced(LeafNode_replace_head(
                              H, node.children[sr.idx + 2].head_leaf, entry))
            ELSE child(sr.idx, node.children[sr.idx + 1])
    IN at(InternalNode_search(H, node, entry[1]))

\* balance_or_drain that gives next the first child of this, not the last
InternalNode_balance_or_drain_first(this, next, lacking_next) ==
    LET tc == this.children
        nc == next.children
    IN
    IF lacking_next /\ Len(tc) > B
    THEN [this |-> [children |-> VecRemove(tc, 0)],
          next |-> [children |-> VecInsert(nc, 0, tc[1])], consumed |-> FALSE]
    ELSE IF ~lacking_next /\ Len(nc) > B
    THEN [this |-> [children |-> tc \o <<nc[1]>>],
          next |-> [children |-> VecRemove(nc, 0)], consumed |-> FALSE]
    ELSE [this |-> [children |-> tc \o nc], next |-> [children |-> <<>>],
          consumed |-> TRUE]

\* InternalNode::balance_or_drain; true if next is drained
InternalNode_balance_or_drain(this, next, lacking_next) ==
    LET tc == this.children
        nc == next.children
    IN
    IF lacking_next /\ Len(tc) > B
    THEN [this |-> [children |-> VecFront(tc)],
          next |-> [children |-> VecInsert(nc, 0, VecLast(tc))], consumed |-> FALSE]
    ELSE IF ~lacking_next /\ Len(nc) > B
    THEN [this |-> [children |-> tc \o <<nc[1]>>],
          next |-> [children |-> VecRemove(nc, 0)], consumed |-> FALSE]
    ELSE [this |-> [children |-> tc \o nc], next |-> [children |-> <<>>],
          consumed |-> TRUE]

RECURSIVE InternalNode_remove(_, _, _)
\* InternalNode::remove that keeps the consumed leaf among the children
InternalNode_remove_kept(H, node, q) ==
    LET out(heap, kept, res, flt) ==
            [heap |-> heap, node |-> [children |-> kept], res |-> res,
             need_merge |-> Len(kept) < B, fault |-> flt]
        inner(r, kept, start, left, right, bal) ==
            out(r.heap,
                IF bal.consumed
                THEN VecRemove(VecSet(kept, start,
                                      [left EXCEPT !.internal = Some(bal.this)]),
                               start + 1)
                ELSE VecSet(VecSet(kept, start,
                                   [left EXCEPT !.internal = Some(bal.this)]),
                            start + 1,
                            [head_leaf |-> InternalNode_head_leaf(bal.next),
                             internal |-> Some(bal.next)]),
                r.res, r.fault)
        leaves(r, kept, start, bal) ==
            out(bal.heap,
                kept,
                r.res, r.fault \/ bal.fault)
        pair(r, kept, start, lacking_next, left, right) ==
            IF IsSome(left.internal) /\ IsSome(right.internal)
            THEN inner(r, kept, start, left, right,
                       InternalNode_balance_or_drain(left.internal[1],
                                                     right.internal[1], lacking_next))
            ELSE IF ~IsSome(left.internal) /\ ~IsSome(right.internal)
            THEN leaves(r, kept, start,
                        LeafNode_balance_or_drain(r.heap, left.head_leaf,
                                                  right.head_leaf, lacking_next))
            ELSE [heap |-> r.heap, node |-> [children |-> kept], res |-> r.res,
                  need_merge |-> TRUE, fault |-> TRUE]
        rebalance(r, kept, start, lacking_next) ==
            IF Len(kept) - start < 2
            THEN [heap |-> r.heap, node |-> [children |-> kept], res |-> r.res,
                  need_merge |-> TRUE, fault |-> TRUE]
            ELSE pair(r, kept, start, lacking_next, kept[start + 1], kept[start + 2])
        removed(idx, r, kept) ==
            IF ~IsSome(r.res)
            THEN [heap |-> H, node |-> node, res |-> None, need_merge |-> FALSE,
                  fault |-> r.fault]
            ELSE IF ~r.need_merge
            THEN [heap |-> r.heap, node |-> [children |-> kept], res |-> r.res,
                  need_merge |-> FALSE, fault |-> r.fault]
            ELSE rebalance(r, kept, IF idx # 0 THEN idx - 1 ELSE 0, idx # 0)
        child(idx, c) ==
            IF IsSome(c.internal)
            THEN LET got(r) ==
                         removed(idx, r,
                                 VecSet(node.children, idx,
                                        [c EXCEPT !.internal = Some(r.node)]))
                 IN got(InternalNode_remove(H, c.internal[1], q))
            ELSE LET got(r) == removed(idx, r, node.children)
                 IN got(LeafNode_remove(H, c.head_leaf, q))
        at(ci) ==
            IF ci.fault
            THEN [heap |-> H, node |-> node, res |-> None, need_merge |-> FALSE,
                  fault |-> TRUE]
            ELSE child(ci.idx, node.children[ci.idx + 1])
    IN at(InternalNode_child_idx(H, node, q))

\* InternalNode::remove: (removed entry, need_merge)
InternalNode_remove(H, node, q) ==
    LET out(heap, kept, res, flt) ==
            [heap |-> heap, node |-> [children |-> kept], res |-> res,
             need_merge |-> Len(kept) < B, fault |-> flt]
        inner(r, kept, start, left, right, bal) ==
            out(r.heap,
                IF bal.consumed
                THEN VecRemove(VecSet(kept, start,
                                      [left EXCEPT !.internal = Some(bal.this)]),
                               start + 1)
                ELSE VecSet(VecSet(kept, start,
                                   [left EXCEPT !.internal = Some(bal.this)]),
                            start + 1,
                            [head_leaf |-> InternalNode_head_leaf(bal.next),
                             internal |-> Some(bal.next)]),
                r.res, r.fault)
        leaves(r, kept, start, bal) ==
            out(bal.heap,
                IF bal.consumed THEN VecRemove(kept, start + 1) ELSE kept,
                r.res, r.fault \/ bal.fault)
        pair(r, kept, start, lacking_next, left, right) ==
            IF IsSome(left.internal) /\ IsSome(right.internal)
            THEN inner(r, kept, start, left, right,
                       InternalNode_balance_or_drain(left.internal[1],
                                                     right.internal[1], lacking_next))
            ELSE IF ~IsSome(left.internal) /\ ~IsSome(right.internal)
            THEN leaves(r, kept, start,
                        LeafNode_balance_or_drain(r.heap, left.head_leaf,
                                                  right.head_leaf, lacking_next))
            ELSE [heap |-> r.heap, node |-> [children |-> kept], res |-> r.res,
                  need_merge |-> TRUE, fault |-> TRUE]
        rebalance(r, kept, start, lacking_next) ==
            IF Len(kept) - start < 2
            THEN [heap |-> r.heap, node |-> [children |-> kept], res |-> r.res,
                  need_merge |-> TRUE, fault |-> TRUE]
            ELSE pair(r, kept, start, lacking_next, kept[start + 1], kept[start + 2])
        removed(idx, r, kept) ==
            IF ~IsSome(r.res)
            THEN [heap |-> H, node |-> node, res |-> None, need_merge |-> FALSE,
                  fault |-> r.fault]
            ELSE IF ~r.need_merge
            THEN [heap |-> r.heap, node |-> [children |-> kept], res |-> r.res,
                  need_merge |-> FALSE, fault |-> r.fault]
            ELSE rebalance(r, kept, IF idx # 0 THEN idx - 1 ELSE 0, idx # 0)
        child(idx, c) ==
            IF IsSome(c.internal)
            THEN LET got(r) ==
                         removed(idx, r,
                                 VecSet(node.children, idx,
                                        [c EXCEPT !.internal = Some(r.node)]))
                 IN got(InternalNode_remove(H, c.internal[1], q))
            ELSE LET got(r) == removed(idx, r, node.children)
                 IN got(LeafNode_remove(H, c.head_leaf, q))
        at(ci) ==
            IF ci.fault
            THEN [heap |-> H, node |-> node, res |-> None, need_merge |-> FALSE,
                  fault |-> TRUE]
            ELSE child(ci.idx, node.children[ci.idx + 1])
    IN at(InternalNode_child_idx(H, node, q))

\* The leaf handles an InternalNode holds strongly: every Child's head_leaf.
RECURSIVE InternalNode_strong(_)
InternalNode_strong(node) ==
    UNION {{node.children[i].head_leaf} \cup
           (IF IsSome(node.children[i].internal)
            THEN InternalNode_strong(node.children[i].internal[1]) ELSE {})
           : i \in 1..Len(node.children)}

----------------------------------------------------------------------------
(* lib.rs: Root and the BTreeMap facade of the fixed-capacity engine *)

EmptyRoot == [tag |-> "Empty", body |-> <<>>]
LeafChild(h) == [head_leaf |-> h, internal |-> None]
InternalChild(node) ==
    [head_leaf |-> InternalNode_head_leaf(node), internal |-> Some(node)]
InternalRoot(node) == [tag |-> "Internal", body |-> <<node>>]

\* Root::insert that puts the new sibling of a split leaf before the leaf
Root_insert_swapped(H, root, entry) ==
    LET first(h) ==
            [heap |-> [H EXCEPT ![h] = LeafData(<<entry>>, NoLeaf, NoLeaf)],
             root |-> [tag |-> "Leaf", body |-> <<h>>], prev |-> None,
             fault |-> FALSE]
        leaf(r) ==
            [heap |-> r.heap,
             root |-> IF IsSome(r.new)
                      THEN InternalRoot([children |->
                                <<LeafChild(r.new[1]), LeafChild(root.body[1])>>])
                      ELSE root,
             prev |-> r.prev, fault |-> r.fault]
        inner(r) ==
            [heap |-> r.heap,
             root |-> IF IsSome(r.new)
                      THEN InternalRoot([children |->
                                <<InternalChild(r.node), InternalChild(r.new[1])>>])
                      ELSE InternalRoot(r.node),
             prev |-> r.prev, fault |-> r.fault]
    IN
    IF root.tag = "Empty" THEN first(Alloc(H))
    ELSE IF root.tag = "Leaf" THEN leaf(LeafNode_insert(H, root.body[1], entry))
    ELSE inner(InternalNode_insert(H, root.body[1], entry))

\* Root::insert
Root_insert(H, root, entry) ==
    LET first(h) ==
            [heap |-> [H EXCEPT ![h] = LeafData(<<entry>>, NoLeaf, NoLeaf)],
             root |-> [tag |-> "Leaf", body |-> <<h>>], prev |-> None,
             fault |-> FALSE]
        leaf(r) ==
            [heap |-> r.heap,
             root |-> IF IsSome(r.new)
                      THEN InternalRoot([children |->
                                <<LeafChild(root.body[1]), LeafChild(r.new[1])>>])
                      ELSE root,
             prev |-> r.prev, fault |-> r.fault]
        inner(r) ==
            [heap |-> r.heap,
             root |-> IF IsSome(r.new)
                      THEN InternalRoot([children |->
                                <<InternalChild(r.node), InternalChild(r.new[1])>>])
                      ELSE InternalRoot(r.node),
             prev |-> r.prev, fault |-> r.fault]
    IN
    IF root.tag = "Empty" THEN first(Alloc(H))
    ELSE IF root.tag = "Leaf" THEN leaf(LeafNode_insert(H, root.body[1], entry))
    ELSE inner(InternalNode_insert(H, root.body[1], entry))

\* Root::remove
Root_remove(H, root, q) ==
    LET only(c) ==
            IF IsSome(c.internal) THEN InternalRoot(c.internal[1])
            ELSE [tag |-> "Leaf", body |-> <<c.head_leaf>>]
        leaf(r) == [heap |-> r.heap, root |-> root, res |-> r.res, fault |-> r.fault]
        inner(r) ==
            IF ~IsSome(r.res)
            THEN [heap |-> H, root |-> root, res |-> None, fault |-> r.fault]
            ELSE IF Len(r.node.children) > 1
            THEN [heap |-> r.heap, root |-> InternalRoot(r.node), res |-> r.res,
                  fault |-> r.fault]
            ELSE IF Len(r.node.children) = 0
            THEN [heap |-> r.heap, root |-> root, res |-> r.res, fault |-> TRUE]
            ELSE [heap |-> r.heap, root |-> only(r.node.children[1]), res |-> r.res,
                  fault |-> r.fault]
    IN
    IF root.tag = "Empty"
    THEN [heap |-> H, root |-> root, res |-> None, fault |-> FALSE]
    ELSE IF root.tag = "Leaf" THEN leaf(LeafNode_remove(H, root.body[1], q))
    ELSE inner(InternalNode_remove(H, root.body[1], q))

\* The leaf handles the root holds strongly.
Root_strong(root) ==
    IF root.tag = "Empty" THEN {}
    ELSE IF root.tag = "Leaf" THEN {root.body[1]}
    ELSE InternalNode_strong(root.body[1])

\* BTreeMap::new
BTreeMap_new == [root |-> EmptyRoot, length |-> 0]

\* BTreeMap::len
BTreeMap_len(M) == M.length

\* BTreeMap::is_empty
BTreeMap_is_empty(M) == M.length = 0

\* BTreeMap::entry (and get, its value)
BTreeMap_entry(M, H, q) ==
    IF M.root.tag = "Empty" THEN [res |-> None, fault |-> FALSE]
    ELSE IF M.root.tag = "Internal" THEN InternalNode_get(H, M.root.body[1], q)
    ELSE LeafNode_get(H, M.root.body[1], q)

\* insert_entry that counts every insert, also one that replaces a value
BTreeMap_insert_entry_count(M, H, entry) ==
    LET at(r) ==
            [map |-> [root |-> r.root, length |-> M.length + 1],
             heap |-> Sweep(r.heap, Root_strong(r.root)),
             res |-> r.prev, fault |-> r.fault]
    IN at(Root_insert(H, M.root, entry))

\* BTreeMap::insert_entry (and insert, its value)
BTreeMap_insert_entry(M, H, entry) ==
    LET at(r) ==
            [map |-> [root |-> r.root,
                      length |-> IF IsSome(r.prev) THEN M.length ELSE M.length + 1],
             heap |-> Sweep(r.heap, Root_strong(r.root)),
             res |-> r.prev, fault |-> r.fault]
    IN at(Root_insert(H, M.root, entry))

\* remove_entry that keeps the root when the length falls to zero
BTreeMap_remove_entry_keep(M, H, q) ==
    LET done(r, root1, length1) ==
            [map |-> [root |-> root1, length |-> length1],
             heap |-> Sweep(r.heap, Root_strong(root1)),
             res |-> r.res, fault |-> r.fault \/ length1 < 0]
        at(r) ==
            IF ~IsSome(r.res) THEN done(r, r.root, M.length)
            ELSE done(r, r.root, M.length - 1)
    IN at(Root_remove(H, M.root, q))

\* BTreeMap::remove_entry (and remove, its value)
BTreeMap_remove_entry(M, H, q) ==
    LET done(r, root1, length1) ==
            [map |-> [root |-> root1, length |-> length1],
             heap |-> Sweep(r.heap, Root_strong(root1)),
             res |-> r.res, fault |-> r.fault \/ length1 < 0]
        at(r) ==
            IF ~IsSome(r.res) THEN done(r, r.root, M.length)
            ELSE IF M.length - 1 = 0 THEN done(r, EmptyRoot, 0)
            ELSE done(r, r.root, M.length - 1)
    IN at(Root_remove(H, M.root, q))

----------------------------------------------------------------------------
(* The map facade of the capacity-parameterized engine.  Its source is not *)
(* among the files; it is modelled from sections 4.4 and 6 of the          *)
(* specification.  A map is [root, length], root an Option<Internal>.      *)

\* new(): an empty map (the capacity is odd and greater than 3)
Map_new == [root |-> None, length |-> 0]

\* new() that accepts every capacity
Map_new_unchecked(cap) == [ok |-> TRUE, map |-> Some(Map_new)]

\* new() at the configured capacity cap: fails construction if cap is even
\* or <= 3, else gives the empty map
Map_new_checked(cap) ==
    IF cap % 2 = 0 \/ cap <= 3 THEN [ok |-> FALSE, map |-> None]
    ELSE [ok |-> TRUE, map |-> Some(Map_new)]

\* len()
Map_len(M) == M.length

\* is_empty()
Map_is_empty(M) == M.length = 0

\* entry(key) / get(key): the root's boundary check, then the root's lookup
Map_entry(M, H, q) ==
    LET at(cl) ==
            IF cl.fault THEN [res |-> None, fault |-> TRUE]
            ELSE IF ~cl.ok THEN [res |-> None, fault |-> FALSE]
            ELSE Internal_get(H, M.root[1], q)
    IN
    IF ~IsSome(M.root) THEN [res |-> None, fault |-> FALSE]
    ELSE at(Internal_check_lower(H, M.root[1], q))

\* insert_entry(key, value): a singleton leaf wrapped in an Internal node if
\* there is no root; else the root's insert, wrapping root and sibling.
Map_insert_entry(M, H, entry) ==
    LET first(l) ==
            [map |-> [root |-> Some(Internal_new(l.leaf)), length |-> M.length + 1],
             heap |-> l.heap, res |-> None, fault |-> FALSE]
        done(r, root1) ==
            [map |-> [root |-> Some(root1),
                      length |-> IF IsSome(r.prev) THEN M.length ELSE M.length + 1],
             heap |-> Sweep(r.heap, Internal_strong(root1)),
             res |-> r.prev, fault |-> r.fault]
        at(r) == done(r, IF IsSome(r.new) THEN Internal_wrap(r.node, r.new[1])
                         ELSE r.node)
    IN
    IF ~IsSome(M.root) THEN first(Leaf_new(H, entry))
    ELSE at(Internal_insert(H, M.root[1], entry))

\* remove_entry(key): boundary check, the root's remove, then clear the root
\* at length zero or promote the only child of a deficient root.
Map_remove_entry(M, H, q) ==
    LET done(r, root1) ==
            [map |-> [root |-> root1, length |-> M.length - 1],
             heap |-> Sweep(r.heap, IF IsSome(root1) THEN Internal_strong(root1[1])
                                    ELSE {}),
             res |-> r.res, fault |-> r.fault]
        promote(r, pd) ==
            done(r, IF IsSome(pd.res) THEN Some(pd.res[1]) ELSE Some(r.node))
        removed(r) ==
            IF ~IsSome(r.res)
            THEN [map |-> M, heap |-> H, res |-> None, fault |-> r.fault]
            ELSE IF M.length - 1 = 0 THEN done(r, None)
            ELSE IF r.need_merge THEN promote(r, Internal_pop_depth(r.node))
            ELSE done(r, Some(r.node))
        at(cl) ==
            IF cl.fault THEN [map |-> M, heap |-> H, res |-> None, fault |-> TRUE]
            ELSE IF ~cl.ok THEN [map |-> M, heap |-> H, res |-> None, fault |-> FALSE]
            ELSE removed(Internal_remove(H, M.root[1], q))
    IN
    IF ~IsSome(M.root) THEN [map |-> M, heap |-> H, res |-> None, fault |-> FALSE]
    ELSE at(Internal_check_lower(H, M.root[1], q))

----------------------------------------------------------------------------
(* checked.rs: the address of an Rc is not observable.  After each call    *)
(* the leaves are renumbered in descent order, so that two states that     *)
(* differ only in the addresses of their leaves are one state; a Weak to   *)
(* a dropped leaf becomes Dangling (its upgrade gives None).               *)

Dangling == 0 - 1

RECURSIVE Concat(_)
\* The concatenation of a sequence of sequences
Concat(ss) == IF ss = <<>> THEN <<>> ELSE Head(ss) \o Concat(Tail(ss))

RECURSIVE Internal_leaves(_)
\* The leaves below an Internal node by left-to-right descent
Internal_leaves(node) ==
    IF node.kind = "Leaf" THEN node.children
    ELSE Concat([i \in 1..Len(node.children) |-> Internal_leaves(node.children[i])])

RECURSIVE InternalNode_leaves(_)
\* The leaves below an InternalNode by left-to-right descent
InternalNode_leaves(node) ==
    Concat([i \in 1..Len(node.children) |->
               IF IsSome(node.children[i].internal)
               THEN InternalNode_leaves(node.children[i].internal[1])
               ELSE <<node.children[i].head_leaf>>])

RECURSIVE Internal_height(_)
\* The number of Internal nodes on the leftmost path below and including node
Internal_height(node) ==
    IF node.kind = "Leaf" THEN 1 ELSE 1 + Internal_height(node.children[1])

RECURSIVE InternalNode_height(_)
\* The number of InternalNodes on the leftmost path below and including node
InternalNode_height(node) ==
    IF IsSome(node.children[1].internal)
    THEN 1 + InternalNode_height(node.children[1].internal[1]) ELSE 1

\* The number of node levels above the leaves of a map
Map_height(M) == IF IsSome(M.root) THEN Internal_height(M.root[1]) ELSE 0
BTreeMap_height(M) ==
    IF M.root.tag = "Internal" THEN InternalNode_height(M.root.body[1]) ELSE 0

\* The leaves of a map by descent from its root
Map_leaves(M) == IF IsSome(M.root) THEN Internal_leaves(M.root[1]) ELSE <<>>
BTreeMap_leaves(M) ==
    IF M.root.tag = "Empty" THEN <<>>
    ELSE IF M.root.tag = "Leaf" THEN M.root.body
    ELSE InternalNode_leaves(M.root.body[1])

RECURSIVE Ascending(_)
\* The elements of a set of numbers in increasing order
Ascending(S) == IF S = {} THEN <<>> ELSE <<Min(S)>> \o Ascending(S \ {Min(S)})

\* The leaves alive in H: those of the descent, then any other leaf in use
Alive(H, leaves) ==
    leaves \o Ascending({h \in Handles : H[h].used}
                        \ {leaves[i] : i \in 1..Len(leaves)})

\* The new number of the leaf h
Renumber(order, h) ==
    IF h = NoLeaf THEN NoLeaf
    ELSE IF \E i \in 1..Len(order) : order[i] = h
         THEN CHOOSE i \in 1..Len(order) : order[i] = h
         ELSE Dangling

\* The arena with its leaves renumbered
Heap_renumber(H, order) ==
    [n \in Handles |->
        IF n <= Len(order)
        THEN [H[order[n]] EXCEPT !.prev = Renumber(order, H[order[n]].prev),
                                 !.next = Renumber(order, H[order[n]].next)]
        ELSE FreeLeaf]

RECURSIVE Internal_renumber(_, _)
Internal_renumber(node, order) ==
    [kind |-> node.kind,
     head |-> Renumber(order, node.head),
     tail |-> Renumber(order, node.tail),
     children |-> [i \in 1..Len(node.children) |->
                      IF node.kind = "Leaf" THEN Renumber(order, node.children[i])
                      ELSE Internal_renumber(node.children[i], order)]]

RECURSIVE InternalNode_renumber(_, _)
InternalNode_renumber(node, order) ==
    [children |-> [i \in 1..Len(node.children) |->
        [head_leaf |-> Renumber(order, node.children[i].head_leaf),
         internal |-> IF IsSome(node.children[i].internal)
                      THEN Some(InternalNode_renumber(node.children[i].internal[1],
                                                      order))
                      ELSE None]]]

Map_renumber(M, order) ==
    [M EXCEPT !.root = IF IsSome(M.root) THEN Some(Internal_renumber(M.root[1], order))
                       ELSE None]

BTreeMap_renumber(M, order) ==
    [M EXCEPT !.root.body =
        IF M.root.tag = "Empty" THEN <<>>
        ELSE IF M.root.tag = "Leaf" THEN <<Renumber(order, M.root.body[1])>>
        ELSE <<InternalNode_renumber(M.root.body[1], order)>>]

----------------------------------------------------------------------------
(* The state machine: public calls on both maps and on a reference map *)

\* insert / remove / get return the value of the entry
ValOf(o) == IF IsSome(o) THEN Some(o[1][2]) ELSE None

\* The reference ordered map: ref[k] is the value stored for k, 0 if absent.
Absent == 0
RefGet(r, k) == IF r[k] = Absent THEN None ELSE Some(r[k])

\* Key sequences lo, lo + 1, .., hi and hi, hi - 1, .., lo
Asc(lo, hi) == [i \in 1..(hi - lo + 1) |-> lo + i - 1]
Desc(lo, hi) == [i \in 1..(hi - lo + 1) |-> hi - i + 1]

\* Ascending inserts leave leaves of b entries behind a growing last leaf
\* (descending inserts: ahead of a growing first leaf), and nodes of b
\* children behind a growing last node.  PairKeys keys give two leaves of b
\* and b + 2 entries; FullKeys keys give CAP leaves under one node, the last
\* leaf full; WideKeys keys give a root over two nodes of b and b + 1 leaves;
\* TallKeys keys give a root over two nodes of b and CAP leaves, the last
\* leaf full; HighKeys keys give a root over two nodes of b nodes of b
\* leaves; BroadKeys keys give a root over two nodes of b and b + 1 nodes.
PairKeys == 2 * b + 2
FullKeys == (CAP - 1) * b + CAP
WideKeys == (CAP + 2) * b
TallKeys == (b + CAP - 1) * b + CAP
HighKeys == 2 * b * b * b
BroadKeys == (2 * b + 1) * b * b
TopKey == BroadKeys + 3
AllKeys == 1..TopKey

\* Both maps after one more insert of key k with value 1.
BuildStep(t, k) ==
    LET both(g, f) ==
            [gmap |-> g.map, gheap |-> g.heap, fmap |-> f.map, fheap |-> f.heap]
    IN both(Map_insert_entry(t.gmap, t.gheap, <<k, 1>>),
            BTreeMap_insert_entry(t.fmap, t.fheap, <<k, 1>>))

\* Both maps after inserting seq[lo], .., seq[hi] into the maps t, by halves.
RECURSIVE BuildFrom(_, _, _, _)
BuildFrom(t, seq, lo, hi) ==
    IF lo > hi THEN t
    ELSE IF lo = hi THEN BuildStep(t, seq[lo])
    ELSE LET t1 == BuildFrom(t, seq, lo, (lo + hi) \div 2) IN
         IF t1.gmap.length >= 0 THEN BuildFrom(t1, seq, (lo + hi) \div 2 + 1, hi)
         ELSE t1

\* Both maps after inserting the keys of seq in order, each with value 1.
Build(seq) ==
    BuildFrom([gmap |-> Map_new, gheap |-> EmptyHeap, fmap |-> BTreeMap_new,
               fheap |-> EmptyHeap], seq, 1, Len(seq))

\* The runs explored.  Each starts from the maps built by inserting seq and
\* then makes any sequence of calls on the keys of `keys`: from the empty
\* map, from one full leaf, and from trees of two leaves, of CAP leaves and
\* of greater height, on keys around the places where a call splits, borrows,
\* merges or changes the height.
Scenarios ==
    { [seq |-> <<>>, keys |-> 1..MaxKey],
      [seq |-> Asc(2, CAP + 1), keys |-> {1, 2, 3, CAP + 2}],
      [seq |-> Asc(2, PairKeys + 1), keys |-> {1, 2, 3, PairKeys + 2}],
      [seq |-> Desc(2, PairKeys + 1),
       keys |-> {1, PairKeys, PairKeys + 1, PairKeys + 2}],
      [seq |-> Asc(2, FullKeys + 1),
       keys |-> {2, FullKeys - 1, FullKeys + 1, FullKeys + 2}],
      [seq |-> Desc(3, FullKeys + 2), keys |-> {1, 2, 3, FullKeys + 2}],
      [seq |-> Asc(2, WideKeys + 1), keys |-> {2, 3, 4, 5}],
      [seq |-> Desc(2, WideKeys + 1),
       keys |-> {WideKeys + 1, WideKeys, WideKeys - 1, WideKeys - 2}],
      [seq |-> Asc(2, TallKeys + 1),
       keys |-> {2, TallKeys, TallKeys + 1, TallKeys + 2}],
      [seq |-> Asc(2, HighKeys + 1), keys |-> {1, 2, HighKeys + 1}],
      [seq |-> Asc(2, BroadKeys + 1), keys |-> {1, 2, BroadKeys + 1}] }

\* The numbers of children of the children of the root
Map_fan(M) ==
    IF IsSome(M.root) /\ M.root[1].kind = "Internal"
    THEN [i \in 1..Len(M.root[1].children) |-> Len(M.root[1].children[i].children)]
    ELSE <<>>
BTreeMap_fan(M) ==
    IF M.root.tag = "Internal" /\ IsSome(M.root.body[1].children[1].internal)
    THEN [i \in 1..Len(M.root.body[1].children) |->
             Len(M.root.body[1].children[i].internal[1].children)]
    ELSE <<>>

\* The shape of both maps: of each, the number of leaves, the height, the
\* numbers of children below the root and the length
Shape(g, f) ==
    [gleaves |-> Len(Map_leaves(g)), gheight |-> Map_height(g), gfan |-> Map_fan(g),
     glen |-> g.length,
     fleaves |-> Len(BTreeMap_leaves(f)), fheight |-> BTreeMap_height(f),
     ffan |-> BTreeMap_fan(f), flen |-> f.length]

NoCall == [op |-> "none", key |-> 0, val |-> 0, gres |-> None, fres |-> None,
           rres |-> None, gfault |-> FALSE, ffault |-> FALSE,
           before |-> Shape(Map_new, BTreeMap_new)]

Init ==
    \E sc \in Scenarios :
        LET numbered(t, go, fo) ==
                /\ gmap = Map_renumber(t.gmap, go)
                /\ gheap = Heap_renumber(t.gheap, go)
                /\ fmap = BTreeMap_renumber(t.fmap, fo)
                /\ fheap = Heap_renumber(t.fheap, fo)
            built(t) == numbered(t, Alive(t.gheap, Map_leaves(t.gmap)),
                                 Alive(t.fheap, BTreeMap_leaves(t.fmap)))
        IN
        /\ built(Build(sc.seq))
        /\ ref = [k \in AllKeys |->
                     IF \E i \in 1..Len(sc.seq) : sc.seq[i] = k THEN 1 ELSE Absent]
        /\ last = NoCall
        /\ keys = sc.keys

\* A call is made while no call has failed fast.
CanCall == ~last.gfault /\ ~last.ffault

\* The record of a call: its inputs, what each map and the reference map
\* returned, and the shape of both maps before the call
Called(op, k, v, g, f) ==
    [op |-> op, key |-> k, val |-> v, gres |-> ValOf(g.res), fres |-> ValOf(f.res),
     rres |-> RefGet(ref, k), gfault |-> g.fault, ffault |-> f.fault,
     before |-> Shape(gmap, fmap)]

\* Both maps as a mutating call leaves them
Mutated(op, k, v, g, f) ==
    LET left(go, fo) ==
            /\ gmap' = Map_renumber(g.map, go)
            /\ gheap' = Heap_renumber(g.heap, go)
            /\ fmap' = BTreeMap_renumber(f.map, fo)
            /\ fheap' = Heap_renumber(f.heap, fo)
    IN
    /\ left(Alive(g.heap, Map_leaves(g.map)), Alive(f.heap, BTreeMap_leaves(f.map)))
    /\ last' = Called(op, k, v, g, f)

\* insert(k, v) on both maps and the reference map
Insert(k, v) ==
    /\ CanCall
    /\ Mutated("insert", k, v, Map_insert_entry(gmap, gheap, <<k, v>>),
               BTreeMap_insert_entry(fmap, fheap, <<k, v>>))
    /\ ref' = [ref EXCEPT ![k] = v]
    /\ UNCHANGED keys

\* remove(k) on both maps and the reference map
Remove(k) ==
    /\ CanCall
    /\ Mutated("remove", k, 0, Map_remove_entry(gmap, gheap, k),
               BTreeMap_remove_entry(fmap, fheap, k))
    /\ ref' = [ref EXCEPT ![k] = Absent]
    /\ UNCHANGED keys

\* get(k) on both maps and the reference map
Get(k) ==
    /\ CanCall
    /\ last' = Called("get", k, 0, Map_entry(gmap, gheap, k),
                      BTreeMap_entry(fmap, fheap, k))
    /\ UNCHANGED <<gmap, gheap, fmap, fheap, ref, keys>>

Next ==
    \/ \E k \in keys, v \in Values : Insert(k, v)
    \/ \E k \in keys : Remove(k)
    \/ \E k \in keys : Get(k)

Spec == Init /\ [][Next]_vars

----------------------------------------------------------------------------
(* Reading the two trees *)

\* The leaves of each map by descent from its root
GLeaves == Map_leaves(gmap)
FLeaves == BTreeMap_leaves(fmap)

\* The entries held by a sequence of leaves, in order
EntriesOf(H, leaves) == Concat([i \in 1..Len(leaves) |-> H[leaves[i]].entries])

RECURSIVE ChainFrom(_, _, _)
\* The leaves met from h by following `next`, at most n of them
ChainFrom(H, h, n) ==
    IF h \notin Handles \/ n = 0 THEN <<>>
    ELSE <<h>> \o ChainFrom(H, H[h].next, n - 1)

\* The walk of the chain from the leftmost leaf of a tree
Chain(H, leaves) ==
    IF leaves = <<>> THEN <<>> ELSE ChainFrom(H, leaves[1], MaxLeaves + 1)

StrictlyIncreasing(ks) == \A i \in 1..(Len(ks) - 1) : ks[i] < ks[i + 1]

RECURSIVE RefEntriesIn(_, _)
\* The reference map's entries with keys lo..hi, in key order
RefEntriesIn(lo, hi) ==
    IF lo > hi THEN <<>>
    ELSE IF lo = hi THEN (IF ref[lo] = Absent THEN <<>> ELSE <<<<lo, ref[lo]>>>>)
    ELSE RefEntriesIn(lo, (lo + hi) \div 2) \o RefEntriesIn((lo + hi) \div 2 + 1, hi)
RefEntries == RefEntriesIn(1, TopKey)

----------------------------------------------------------------------------
(* Claims *)

\* C1: every insert, get and remove returns on both maps what the same
\* call returns on the reference ordered map, without failing fast, and
\* the entries stored in the leaves (read by descent from the root) are
\* exactly the reference map's entries in key order.
C1_Equivalence ==
    /\ ~last.gfault /\ ~last.ffault
    /\ last.gres = last.rres
    /\ last.fres = last.rres
    /\ EntriesOf(gheap, GLeaves) = RefEntries
    /\ EntriesOf(fheap, FLeaves) = RefEntries

\* C1 is exercised: a remove of a present key has returned its value and
\* lowered the height of both trees.
C1_Witness ==
    /\ last.op = "remove" /\ IsSome(last.rres)
    /\ last.before.gheight = 3 /\ Map_height(gmap) = 2
    /\ last.before.fheight = 3 /\ BTreeMap_height(fmap) = 2

\* C2: the walk of the chain by `next` from the leftmost leaf visits exactly
\* the leaves of the tree in descent order, once each, and the keys met are
\* strictly increasing.
C2_Order ==
    /\ Chain(gheap, GLeaves) = GLeaves
    /\ Chain(fheap, FLeaves) = FLeaves
    /\ StrictlyIncreasing(KeysOf(EntriesOf(gheap, Chain(gheap, GLeaves))))
    /\ StrictlyIncreasing(KeysOf(EntriesOf(fheap, Chain(fheap, FLeaves))))

\* C2 is exercised by a split: an insert has split a leaf that is not the
\* last one.
C2_SplitWitness ==
    /\ last.op = "insert"
    /\ Len(GLeaves) = last.before.gleaves + 1 /\ Len(FLeaves) = last.before.fleaves + 1
    /\ \E i \in 1..(Len(GLeaves) - 2) : gheap[GLeaves[i]].entries[1][1] > last.key
\* C2 is exercised by a merge: a remove has merged two leaves and left a
\* chain of at least four.
C2_Witness ==
    /\ last.op = "remove"
    /\ Len(GLeaves) = last.before.gleaves - 1 /\ Len(FLeaves) = last.before.fleaves - 1
    /\ Len(GLeaves) >= 4

RECURSIVE Internal_filled(_, _, _, _)
\* Every node and leaf below node holds at most CAP and, unless exempt, at
\* least b entries/children: node itself is exempt if root, and so is its
\* only leaf if sole.
Internal_filled(H, node, root, sole) ==
    /\ Len(node.children) <= CAP
    /\ root \/ Len(node.children) >= b
    /\ \A i \in 1..Len(node.children) :
          IF node.kind = "Leaf"
          THEN /\ Len(H[node.children[i]].entries) <= CAP
               /\ \/ Len(H[node.children[i]].entries) >= b
                  \/ sole /\ Len(node.children) = 1
          ELSE Internal_filled(H, node.children[i], FALSE, FALSE)

RECURSIVE InternalNode_filled(_, _, _)
\* The same for the fixed-capacity engine, whose root may be a leaf
InternalNode_filled(H, node, root) ==
    /\ Len(node.children) <= CAPACITY
    /\ root \/ Len(node.children) >= B
    /\ \A i \in 1..Len(node.children) :
          IF IsSome(node.children[i].internal)
          THEN InternalNode_filled(H, node.children[i].internal[1], FALSE)
          ELSE /\ Len(H[node.children[i].head_leaf].entries) <= CAPACITY
               /\ Len(H[node.children[i].head_leaf].entries) >= B

BTreeMap_filled ==
    IF fmap.root.tag = "Empty" THEN TRUE
    ELSE IF fmap.root.tag = "Leaf"
    THEN Len(fheap[fmap.root.body[1]].entries) <= CAPACITY
    ELSE InternalNode_filled(fheap, fmap.root.body[1], TRUE)

\* C3 as stated: every leaf and every node other than the root holds
\* between B and CAP entries/children.
C3_FillAsStated ==
    /\ IsSome(gmap.root) => Internal_filled(gheap, gmap.root[1], TRUE, FALSE)
    /\ BTreeMap_filled

\* C3, amended: every leaf and every node other than the root holds between
\* B and CAP entries/children, except that in the capacity-parameterized
\* engine, whose root is always a node, the leaf that is the root's only
\* child may hold fewer than B (but at least one entry).
C3_Fill ==
    /\ IsSome(gmap.root) =>
          /\ Internal_filled(gheap, gmap.root[1], TRUE, TRUE)
          /\ \A i \in 1..Len(GLeaves) : gheap[GLeaves[i]].entries # <<>>
    /\ BTreeMap_filled

\* C3 is exercised: a remove has merged two leaves of a tree of height two
\* without changing the height, and left a leaf of exactly B entries.
C3_Witness ==
    /\ last.op = "remove"
    /\ Len(GLeaves) = last.before.gleaves - 1 /\ Len(FLeaves) = last.before.fleaves - 1
    /\ last.before.gheight = 2 /\ Map_height(gmap) = 2 /\ BTreeMap_height(fmap) = 2
    /\ \E i \in 1..Len(GLeaves) : Len(gheap[GLeaves[i]].entries) = b

\* The keys stored below a sequence of leaves
KeySet(H, leaves) ==
    UNION {{H[leaves[i]].entries[j][1] : j \in 1..Len(H[leaves[i]].entries)} :
              i \in 1..Len(leaves)}

RECURSIVE Internal_cached(_, _)
\* head and tail of node and of every node below it are the leftmost and
\* the rightmost leaf of the subtree, whose first and last keys are the
\* least and the greatest key of the subtree
Internal_cached(H, node) ==
    /\ node.children # <<>>
    /\ node.head = Internal_leaves(node)[1]
    /\ node.tail = VecLast(Internal_leaves(node))
    /\ \A k \in KeySet(H, Internal_leaves(node)) :
          Leaf_first(H, node.head) <= k /\ k <= Leaf_last(H, node.tail)
    /\ Leaf_first(H, node.head) \in KeySet(H, Internal_leaves(node))
    /\ Leaf_last(H, node.tail) \in KeySet(H, Internal_leaves(node))
    /\ node.kind = "Internal" =>
          \A i \in 1..Len(node.children) : Internal_cached(H, node.children[i])

RECURSIVE InternalNode_cached(_, _)
\* head_leaf of every Child below node is the leftmost leaf of the Child's
\* subtree, whose first key is the least key of the subtree
InternalNode_cached(H, node) ==
    \A i \in 1..Len(node.children) :
        IsSome(node.children[i].internal) =>
            /\ node.children[i].head_leaf =
                  InternalNode_leaves(node.children[i].internal[1])[1]
            /\ \A k \in KeySet(H, InternalNode_leaves(node.children[i].internal[1])) :
                  LeafNode_head(H, node.children[i].head_leaf) <= k
            /\ InternalNode_cached(H, node.children[i].internal[1])

\* C4: every Internal node's head is the leftmost and its tail the
\* rightmost leaf of its subtree, so that the head's first key is the least
\* and the tail's last key the greatest key of the subtree; in the
\* fixed-capacity engine every Child's head_leaf is the leftmost leaf of
\* the Child's subtree.
C4_Caches ==
    /\ IsSome(gmap.root) => Internal_cached(gheap, gmap.root[1])
    /\ fmap.root.tag = "Internal" => InternalNode_cached(fheap, fmap.root.body[1])

\* C4 is exercised: a remove below the first of two nodes of height one has
\* merged two of its b leaves, and the node has taken the first leaf of the
\* second node, whose head is a new leaf.
C4_Witness ==
    /\ last.op = "remove"
    /\ last.before.gfan = <<b, b + 1>> /\ Map_fan(gmap) = <<b, b>>
    /\ last.before.ffan = <<b, b + 1>> /\ BTreeMap_fan(fmap) = <<b, b>>
    /\ last.key < Leaf_first(gheap, gmap.root[1].children[2].head)

RECURSIVE Internal_depths(_)
\* The depths at which the leaves below node lie
Internal_depths(node) ==
    IF node.kind = "Leaf" THEN {1}
    ELSE {d + 1 : d \in UNION {Internal_depths(node.children[i]) :
                                  i \in 1..Len(node.children)}}

RECURSIVE InternalNode_depths(_)
InternalNode_depths(node) ==
    UNION {IF IsSome(node.children[i].internal)
           THEN {d + 1 : d \in InternalNode_depths(node.children[i].internal[1])}
           ELSE {1} : i \in 1..Len(node.children)}

RECURSIVE InternalNode_uniform(_)
\* The children of node and of every InternalNode below it are all leaves
\* or all InternalNodes
InternalNode_uniform(node) ==
    /\ \A i, j \in 1..Len(node.children) :
          IsSome(node.children[i].internal) = IsSome(node.children[j].internal)
    /\ \A i \in 1..Len(node.children) :
          IsSome(node.children[i].internal) =>
              InternalNode_uniform(node.children[i].internal[1])

\* C5: all leaves lie at the same depth below the root, and the children of
\* every node are all leaves or all nodes.
C5_Depth ==
    /\ IsSome(gmap.root) => Cardinality(Internal_depths(gmap.root[1])) = 1
    /\ fmap.root.tag = "Internal" =>
          /\ Cardinality(InternalNode_depths(fmap.root.body[1])) = 1
          /\ InternalNode_uniform(fmap.root.body[1])

\* C5 is exercised: an insert has split the root of a tree of height two,
\* and the tree has height three.
C5_Witness ==
    /\ last.op = "insert"
    /\ last.before.gheight = 2 /\ Map_height(gmap) = 3
    /\ last.before.fheight = 2 /\ BTreeMap_height(fmap) = 3

\* next and prev of every leaf are the leaves after and before it in
\* descent order, absent at the ends
Adjacent(H, leaves) ==
    \A i \in 1..Len(leaves) :
        /\ H[leaves[i]].next = IF i < Len(leaves) THEN leaves[i + 1] ELSE NoLeaf
        /\ H[leaves[i]].prev = IF i > 1 THEN leaves[i - 1] ELSE NoLeaf

\* C6: next of every leaf is the leaf after it and prev of every leaf the
\* leaf before it in key order, each absent exactly at its end of the
\* chain.
C6_Adjacent ==
    /\ Adjacent(gheap, GLeaves)
    /\ Adjacent(fheap, FLeaves)

\* C7: get(k) right after insert(k, v) returns v, and get(k) right after
\* remove(k) returns none, on both maps.
C7_RoundTrip ==
    LET g == Map_entry(gmap, gheap, last.key)
        f == BTreeMap_entry(fmap, fheap, last.key)
    IN
    /\ last.op = "insert" =>
          /\ ~g.fault /\ ValOf(g.res) = Some(last.val)
          /\ ~f.fault /\ ValOf(f.res) = Some(last.val)
    /\ last.op = "remove" =>
          /\ ~g.fault /\ ValOf(g.res) = None
          /\ ~f.fault /\ ValOf(f.res) = None

\* C7 is exercised: an insert of an absent key has split a leaf and a node
\* above it.
C7_Witness ==
    /\ last.op = "insert" /\ ~IsSome(last.rres)
    /\ Len(GLeaves) = last.before.gleaves + 1
    /\ Len(Map_fan(gmap)) = Len(last.before.gfan) + 1
    /\ Len(BTreeMap_fan(fmap)) = Len(last.before.ffan) + 1

\* C7 is exercised: a remove of a present key has merged leaves and nodes
\* and lowered the height.
C7_RemoveWitness ==
    /\ last.op = "remove" /\ IsSome(last.rres)
    /\ last.before.gheight = 2 /\ Map_height(gmap) = 1
    /\ last.before.fheight = 2 /\ BTreeMap_height(fmap) = 1

\* C8: len() is the number of distinct keys stored in the leaves; an insert
\* of an absent key raises it by one, a remove of a present key lowers it
\* by one, and an insert of a present key or a remove of an absent key
\* leaves it as it was.
C8_Len ==
    /\ Map_len(gmap) = Cardinality(KeySet(gheap, GLeaves))
    /\ BTreeMap_len(fmap) = Cardinality(KeySet(fheap, FLeaves))
    /\ Map_len(gmap) = Len(EntriesOf(gheap, GLeaves))
    /\ BTreeMap_len(fmap) = Len(EntriesOf(fheap, FLeaves))
    /\ last.op = "insert" /\ ~IsSome(last.rres) =>
          /\ Map_len(gmap) = last.before.glen + 1
          /\ BTreeMap_len(fmap) = last.before.flen + 1
    /\ last.op = "remove" /\ IsSome(last.rres) =>
          /\ Map_len(gmap) = last.before.glen - 1
          /\ BTreeMap_len(fmap) = last.before.flen - 1
    /\ \/ last.op = "insert" /\ IsSome(last.rres)
       \/ last.op = "remove" /\ ~IsSome(last.rres)
       => /\ Map_len(gmap) = last.before.glen
          /\ BTreeMap_len(fmap) = last.before.flen

\* C8 is exercised: a remove of an absent key that lies in a gap between
\* the keys of a tree of height two has left the length as it was.
C8_Witness ==
    /\ last.op = "remove" /\ ~IsSome(last.rres)
    /\ Map_height(gmap) = 2 /\ BTreeMap_height(fmap) = 2
    /\ \E k \in KeySet(gheap, GLeaves) : k < last.key
    /\ \E k \in KeySet(gheap, GLeaves) : k > last.key
    /\ Map_len(gmap) = last.before.glen /\ Map_len(gmap) > 0

\* The arena H1 is the arena H0 with the value of key k replaced by v
Replaced(H0, H1, k, v) ==
    \A h \in Handles :
        /\ H1[h].used = H0[h].used
        /\ H1[h].prev = H0[h].prev
        /\ H1[h].next = H0[h].next
        /\ Len(H1[h].entries) = Len(H0[h].entries)
        /\ \A i \in 1..Len(H0[h].entries) :
              H1[h].entries[i] = IF H0[h].entries[i][1] = k THEN <<k, v>>
                                 ELSE H0[h].entries[i]

\* An insert of a present key returns the value it replaces and changes
\* nothing but that value
C9_Step ==
    last'.op = "insert" /\ ref[last'.key] # Absent =>
        /\ ~last'.gfault /\ ~last'.ffault
        /\ last'.gres = Some(ref[last'.key])
        /\ last'.fres = Some(ref[last'.key])
        /\ gmap' = gmap
        /\ fmap' = fmap
        /\ Replaced(gheap, gheap', last'.key, last'.val)
        /\ Replaced(fheap, fheap', last'.key, last'.val)

\* C9: insert(k, v') of a present key returns the previous value, replaces
\* only the value of k, and leaves the nodes, their children and caches,
\* the leaves, their keys and links, the height and len() as they were.
C9_Replace == [][C9_Step]_vars

\* C9 is exercised: an insert has replaced by another value the value of
\* the first key of a leaf that is not the first leaf of a tree of height
\* two (the fixed-capacity engine replaces it without descending).
C9_Witness ==
    /\ last.op = "insert" /\ IsSome(last.rres) /\ last.rres # Some(last.val)
    /\ BTreeMap_height(fmap) = 2
    /\ \E i \in 2..Len(FLeaves) : LeafNode_head(fheap, FLeaves[i]) = last.key

\* A get or a remove of an absent key returns none, does not fail, and
\* changes nothing
C10_Step ==
    last'.op \in {"get", "remove"} /\ ref[last'.key] = Absent =>
        /\ ~last'.gfault /\ ~last'.ffault
        /\ last'.gres = None
        /\ last'.fres = None
        /\ UNCHANGED <<gmap, gheap, fmap, fheap>>

\* C10: get(k) and remove(k) of a key that is not in the map return none
\* without failing and leave the trees, the leaves, the links, the caches
\* and len() as they were.
C10_Miss == [][C10_Step]_vars

\* C10 is exercised: a remove of a key below the least key of a tree of
\* height two has returned none.
C10_Witness ==
    /\ last.op = "remove" /\ ~IsSome(last.rres)
    /\ Map_height(gmap) = 2 /\ BTreeMap_height(fmap) = 2
    /\ \A k \in KeySet(gheap, GLeaves) : last.key < k

\* C10 is exercised on the empty map.
C10_EmptyWitness ==
    /\ last.op = "remove" /\ ~IsSome(last.rres)
    /\ ~IsSome(gmap.root) /\ fmap.root.tag = "Empty"

\* C10 is exercised above the greatest key of a tree of height two.
C10_AboveWitness ==
    /\ last.op = "get" /\ ~IsSome(last.rres)
    /\ Map_height(gmap) = 2 /\ BTreeMap_height(fmap) = 2
    /\ \A k \in KeySet(gheap, GLeaves) : last.key > k

\* C11: after an insert(k, v) or a remove(k), get(k') of every other key k'
\* returns on both maps what the reference map holds for k', which the call
\* on k has not changed: the value k' had before the call, or none.
C11_Frame ==
    last.op \in {"insert", "remove"} =>
        \A k \in AllKeys \ {last.key} :
            /\ ValOf(Map_entry(gmap, gheap, k).res) = RefGet(ref, k)
            /\ ValOf(BTreeMap_entry(fmap, fheap, k).res) = RefGet(ref, k)

\* C11 is exercised: a remove has made a leaf take the last entry of its
\* left neighbour, and the key of that entry, now the first of its leaf, is
\* still found.
C11_Witness ==
    /\ last.op = "remove" /\ IsSome(last.rres)
    /\ Len(FLeaves) = last.before.fleaves /\ Len(GLeaves) = last.before.gleaves
    /\ \E i \in 2..Len(FLeaves) :
          /\ Len(fheap[FLeaves[i]].entries) = B
          /\ Len(gheap[GLeaves[i]].entries) = b
          /\ LeafNode_head(fheap, FLeaves[i]) < last.key
          /\ last.key < VecLast(fheap[FLeaves[i]].entries)[1]
          /\ \A j \in 1..B : fheap[FLeaves[i]].entries[j][1] # last.key
          /\ Len(fheap[FLeaves[i - 1]].entries) >= B

\* C12: no call fails fast on either map, a borrow conflict of a leaf cell
\* included, so each result is the one computed without the borrow checks,
\* which is the reference map's; and the borrows that a step on the tree as it
\* stands would request are free of conflict: the two exclusive borrows of a
\* balance_or_drain on any two neighbouring leaves (they are distinct cells),
\* the borrows of an insert that splits any leaf, the shared borrow of a get.
C12_Borrows ==
    LET free(leaves) ==
            /\ \A i \in 1..Len(leaves) :
                  /\ ~Borrowing(Unborrowed, Leaf_insert_borrows(leaves[i]))
                  /\ ~Borrowing(Unborrowed, Leaf_get_borrows(leaves[i]))
            /\ \A i \in 1..(Len(leaves) - 1) :
                  ~Borrowing(Unborrowed,
                             Leaf_balance_or_drain_borrows(leaves[i], leaves[i + 1]))
    IN
    /\ ~last.gfault /\ ~last.ffault
    /\ last.gres = last.rres /\ last.fres = last.rres
    /\ free(GLeaves) /\ free(FLeaves)

\* C12 is exercised: a remove has merged two neighbouring leaves of each
\* tree, for which balance_or_drain borrowed both cells exclusively together,
\* and further leaves remain.
C12_Witness ==
    /\ last.op = "remove" /\ IsSome(last.rres)
    /\ ~last.gfault /\ ~last.ffault
    /\ Len(GLeaves) = last.before.gleaves - 1 /\ Len(GLeaves) >= 2
    /\ Len(FLeaves) = last.before.fleaves - 1 /\ Len(FLeaves) >= 2

\* C13: an insert of a new key into a map whose only leaf holds CAP entries
\* leaves two leaves of exactly B entries each, every key of the first below
\* every key of the second; the root is an internal node whose children are
\* exactly these two leaves in this order, and len() is CAP + 1.
C13_FullLeafSplit ==
    (last.op = "insert" /\ ~IsSome(last.rres)) =>
        /\ (last.before.gleaves = 1 /\ last.before.glen = CAP) =>
              /\ IsSome(gmap.root) /\ gmap.root[1].kind = "Leaf"
              /\ Len(GLeaves) = 2 /\ GLeaves[1] # GLeaves[2]
              /\ gmap.root[1].children = GLeaves
              /\ Len(gheap[GLeaves[1]].entries) = b
              /\ Len(gheap[GLeaves[2]].entries) = b
              /\ Leaf_last(gheap, GLeaves[1]) < Leaf_first(gheap, GLeaves[2])
              /\ EntriesOf(gheap, GLeaves) = RefEntries
              /\ Map_len(gmap) = CAP + 1
        /\ (last.before.fleaves = 1 /\ last.before.flen = CAPACITY) =>
              /\ fmap.root.tag = "Internal"
              /\ Len(FLeaves) = 2 /\ FLeaves[1] # FLeaves[2]
              /\ fmap.root.body[1].children
                     = <<LeafChild(FLeaves[1]), LeafChild(FLeaves[2])>>
              /\ Len(fheap[FLeaves[1]].entries) = B
              /\ Len(fheap[FLeaves[2]].entries) = B
              /\ VecLast(fheap[FLeaves[1]].entries)[1] < LeafNode_head(fheap, FLeaves[2])
              /\ EntriesOf(fheap, FLeaves) = RefEntries
              /\ BTreeMap_len(fmap) = CAPACITY + 1

\* C13 is exercised: key 1 has been inserted into maps that held the keys
\* 2 .. CAP + 1 in one full leaf, and the keys 1 .. CAP + 1 are now in two
\* leaves.
C13_Witness ==
    /\ last.op = "insert" /\ last.key = 1 /\ ~IsSome(last.rres)
    /\ last.before.gleaves = 1 /\ last.before.glen = CAP
    /\ last.before.fleaves = 1 /\ last.before.flen = CAPACITY
    /\ KeysOf(EntriesOf(gheap, GLeaves)) = Asc(1, CAP + 1)
    /\ KeysOf(EntriesOf(fheap, FLeaves)) = Asc(1, CAPACITY + 1)
    /\ Len(GLeaves) = 2 /\ Len(FLeaves) = 2

\* C14 as stated: between operations the root internal node of neither map
\* has exactly one child.
C14_NeverOneChild ==
    /\ IsSome(gmap.root) => Len(gmap.root[1].children) # 1
    /\ fmap.root.tag = "Internal" => Len(fmap.root.body[1].children) # 1

\* C14: between operations a root internal node never has exactly one child
\* that is itself an internal node (the root of the capacity-parameterized
\* map keeps a single leaf child; the fixed-capacity map then has the leaf
\* itself as root).  A remove that leaves the map non-empty keeps the height
\* or lowers it by exactly one, and lowers it only when the two children of
\* the root have merged into one node, which is the new root with all their
\* children but the one merged away below; a remove that leaves one leaf
\* leaves the capacity-parameterized tree at height 1, the root over that
\* leaf, and the fixed-capacity root a leaf.
C14_Collapse ==
    /\ (IsSome(gmap.root) /\ gmap.root[1].kind = "Internal")
           => Len(gmap.root[1].children) >= 2
    /\ fmap.root.tag = "Internal" => Len(fmap.root.body[1].children) >= 2
    /\ (last.op = "remove" /\ IsSome(last.rres) /\ Map_len(gmap) > 0) =>
          /\ Map_height(gmap) \in {last.before.gheight, last.before.gheight - 1}
          /\ BTreeMap_height(fmap) \in {last.before.fheight, last.before.fheight - 1}
          /\ Map_height(gmap) = last.before.gheight - 1 =>
                /\ Len(last.before.gfan) = 2
                /\ Len(gmap.root[1].children)
                       = last.before.gfan[1] + last.before.gfan[2] - 1
          /\ BTreeMap_height(fmap) = last.before.fheight - 1 =>
                IF fmap.root.tag = "Leaf"
                THEN last.before.fleaves = 2 /\ Len(FLeaves) = 1
                ELSE /\ Len(last.before.ffan) = 2
                     /\ Len(fmap.root.body[1].children)
                            = last.before.ffan[1] + last.before.ffan[2] - 1
          /\ Len(GLeaves) = 1 =>
                /\ Map_height(gmap) = 1
                /\ gmap.root[1].children = GLeaves
          /\ Len(FLeaves) = 1 => fmap.root = [tag |-> "Leaf", body |-> FLeaves]

\* C14 is exercised: a remove has merged the two children of each root, both
\* internal nodes, and the merged node is the new root, one level lower.
C14_Witness ==
    /\ last.op = "remove" /\ IsSome(last.rres)
    /\ last.before.gheight = 2 /\ Map_height(gmap) = 1
    /\ last.before.fheight = 2 /\ BTreeMap_height(fmap) = 1
    /\ Len(last.before.gfan) = 2 /\ Len(last.before.ffan) = 2

\* C14 is exercised: a remove has merged the last two leaves; the root of the
\* capacity-parameterized map is over the one leaf, the fixed-capacity root
\* is the leaf.
C14_LastLeavesWitness ==
    /\ last.op = "remove" /\ IsSome(last.rres)
    /\ last.before.gleaves = 2 /\ Len(GLeaves) = 1
    /\ last.before.fleaves = 2 /\ Len(FLeaves) = 1
    /\ Map_height(gmap) = 1 /\ fmap.root.tag = "Leaf"

\* The leaves below a Child of the fixed-capacity engine, in descent order
Child_leaves(c) ==
    IF IsSome(c.internal) THEN InternalNode_leaves(c.internal[1]) ELSE <<c.head_leaf>>

\* An insert on a non-empty map raises the height by one if the root's
\* insert returns a sibling and keeps it otherwise; with a sibling the new
\* root has two children, which hold what the old root and what the sibling
\* held when the root's insert returned
C15_Step ==
    (last'.op = "insert" /\ Map_len(gmap) > 0 /\ BTreeMap_len(fmap) > 0) =>
        LET entry == <<last'.key, last'.val>>
            grown(g, f, fold) ==
                /\ Map_height(gmap')
                       = Map_height(gmap) + (IF IsSome(g.new) THEN 1 ELSE 0)
                /\ BTreeMap_height(fmap')
                       = BTreeMap_height(fmap) + (IF IsSome(f.new) THEN 1 ELSE 0)
                /\ IsSome(g.new) =>
                      /\ Len(gmap'.root[1].children) = 2
                      /\ gmap'.root[1].kind = "Internal"
                      /\ Len(gmap'.root[1].children[1].children) = Len(g.node.children)
                      /\ Len(gmap'.root[1].children[2].children) = Len(g.new[1].children)
                      /\ EntriesOf(gheap', Internal_leaves(gmap'.root[1].children[1]))
                             = EntriesOf(g.heap, Internal_leaves(g.node))
                      /\ EntriesOf(gheap', Internal_leaves(gmap'.root[1].children[2]))
                             = EntriesOf(g.heap, Internal_leaves(g.new[1]))
                /\ IsSome(f.new) =>
                      /\ fmap'.root.tag = "Internal"
                      /\ Len(fmap'.root.body[1].children) = 2
                      /\ EntriesOf(fheap', Child_leaves(fmap'.root.body[1].children[1]))
                             = EntriesOf(f.heap, Child_leaves(fold))
                      /\ EntriesOf(fheap', Child_leaves(fmap'.root.body[1].children[2]))
                             = EntriesOf(f.heap,
                                         Child_leaves(IF fmap.root.tag = "Leaf"
                                                      THEN LeafChild(f.new[1])
                                                      ELSE InternalChild(f.new[1])))
            fixed(g) ==
                IF fmap.root.tag = "Leaf"
                THEN grown(g, LeafNode_insert(fheap, fmap.root.body[1], entry),
                           LeafChild(fmap.root.body[1]))
                ELSE LET at(f) == grown(g, f, InternalChild(f.node))
                     IN at(InternalNode_insert(fheap, fmap.root.body[1], entry))
        IN fixed(Internal_insert(gheap, gmap.root[1], entry))

\* C15: an insert on a non-empty map raises the height by exactly one if and
\* only if the root's own insert returns a sibling (the root splits), and
\* then the new root has exactly two children: the old root, followed by
\* the sibling; every other insert leaves the height as it was.
C15_Growth == [][C15_Step]_vars

\* C15 is exercised: an insert has split a root that held leaves, and the
\* new root of each tree has as its two children the old root and its
\* sibling.
C15_Witness ==
    /\ last.op = "insert" /\ ~IsSome(last.rres)
    /\ last.before.gheight = 1 /\ Map_height(gmap) = 2
    /\ last.before.fheight = 1 /\ BTreeMap_height(fmap) = 2
    /\ Len(gmap.root[1].children) = 2
    /\ Len(fmap.root.body[1].children) = 2

\* C16: the root of each map is absent exactly when len() is 0, which is
\* exactly when is_empty() holds and when the reference map holds no key; no
\* leaf is then reachable.  In particular a remove of the last entry leaves
\* the root absent, and so does the removal of every key inserted.
C16_RootAbsent ==
    /\ ~IsSome(gmap.root) <=> Map_len(gmap) = 0
    /\ fmap.root.tag = "Empty" <=> BTreeMap_len(fmap) = 0
    /\ Map_is_empty(gmap) <=> RefEntries = <<>>
    /\ BTreeMap_is_empty(fmap) <=> RefEntries = <<>>
    /\ Map_is_empty(gmap) => gmap = Map_new /\ GLeaves = <<>>
    /\ BTreeMap_is_empty(fmap) => fmap = BTreeMap_new /\ FLeaves = <<>>
    /\ (last.op = "remove" /\ IsSome(last.rres) /\ last.before.glen = 1)
           => ~IsSome(gmap.root) /\ Map_is_empty(gmap)
    /\ (last.op = "remove" /\ IsSome(last.rres) /\ last.before.flen = 1)
           => fmap.root = EmptyRoot /\ BTreeMap_is_empty(fmap)

\* C16 is exercised: a remove has taken the last entry out of both maps, which
\* had a root before it, and both are empty without a root.
C16_Witness ==
    /\ last.op = "remove" /\ IsSome(last.rres)
    /\ last.before.glen = 1 /\ last.before.gleaves = 1
    /\ last.before.flen = 1 /\ last.before.fleaves = 1
    /\ Map_is_empty(gmap) /\ ~IsSome(gmap.root)
    /\ BTreeMap_is_empty(fmap) /\ fmap.root.tag = "Empty"

----------------------------------------------------------------------------
(* The operations on their own.  A second specification applies new(),     *)
(* insert_or_split, the balance_or_drain of leaves and of nodes and the    *)
(* remove of a parent of leaves to inputs drawn from bounded sets: `last`  *)
(* holds the call, its inputs and its results, gheap and fheap the leaves  *)
(* it works on, which are those of ChainHeap(last.in.sizes) before it.     *)

\* A chain of leaves 1 .. Len(sizes); leaf h holds sizes[h] entries, the keys
\* increasing along the chain
ChainHeap(sizes) ==
    [h \in Handles |->
        IF h <= Len(sizes)
        THEN LeafData([j \in 1..sizes[h] |-> <<h * (CAP + 1) + j, 1>>],
                      IF h = 1 THEN NoLeaf ELSE h - 1,
                      IF h = Len(sizes) THEN NoLeaf ELSE h + 1)
        ELSE FreeLeaf]

\* The numbers of entries or children a node other than the root can hold
Fills == b..CAP

\* The sizes of a left and a right sibling when balance_or_drain is called:
\* the lacking one has just lost one of its b elements
Siblings ==
    {[n1 |-> n, n2 |-> b - 1, lacking_next |-> TRUE] : n \in Fills}
        \cup {[n1 |-> b - 1, n2 |-> n, lacking_next |-> FALSE] : n \in Fills}

\* A call to come, with its inputs
Input(op, in) == [op |-> op, done |-> FALSE, in |-> in, out |-> <<>>]

NewInputs == {Input("new", [cap |-> c, sizes |-> <<>>]) : c \in 0..(2 * CAP + 1)}

SplitInputs ==
    UNION {{Input("insert_or_split",
                  [buf |-> [i \in 1..n |-> <<2 * i, 1>>], idx |-> idx,
                   new |-> <<2 * idx + 1, 2>>, sizes |-> <<>>]) : idx \in 0..n} :
           n \in 0..CAP}

\* Two sibling leaves, alone or followed by a third leaf
LeafInputs ==
    {Input("leaf_balance",
           [this |-> 1, next |-> 2, lacking_next |-> p.lacking_next,
            sizes |-> <<p.n1, p.n2>> \o rest]) :
        p \in Siblings, rest \in {<<>>, <<b>>}}

\* Two sibling nodes over leaves of b entries
NodeInputs ==
    {Input("node_balance",
           [n1 |-> p.n1, n2 |-> p.n2, lacking_next |-> p.lacking_next,
            sizes |-> [i \in 1..(p.n1 + p.n2) |-> b]]) : p \in Siblings}

\* A parent of two, three or b leaves and a key of one of them, its first
ParentInputs ==
    UNION {{Input("parent_remove", [sizes |-> sizes, q |-> h * (CAP + 1) + 1]) :
                h \in 1..Len(sizes)} :
           sizes \in [1..2 -> Fills] \cup [1..3 -> Fills] \cup [1..b -> Fills]}

\* A parent of 2, CAP - 1 or CAP leaves of b or CAP entries each, a leaf h of
\* them and a key for it: its first key, its last key, a key above its last
\* key or, for the first leaf, a key below its first key
InsertInputs ==
    UNION {UNION {{Input("parent_insert", [sizes |-> sizes, h |-> h, q |-> q]) :
                      q \in {h * (CAP + 1) + 1, h * (CAP + 1) + sizes[h],
                             h * (CAP + 1) + sizes[h] + 1,
                             IF h = 1 THEN CAP + 1 ELSE h * (CAP + 1) + 1}} :
                  h \in 1..Len(sizes)} :
           sizes \in [1..2 -> {b, CAP}] \cup [1..(CAP - 1) -> {b, CAP}]
                        \cup [1..CAP -> {b, CAP}]}

\* The Internal node over the leaves lo .. hi
NodeOver(lo, hi) ==
    [kind |-> "Leaf", head |-> lo, tail |-> hi, children |-> Asc(lo, hi)]

\* The InternalNode over the leaves lo .. hi
InternalNodeOver(lo, hi) == [children |-> [i \in 1..(hi - lo + 1) |-> LeafChild(lo + i - 1)]]

\* An internal node of one level over n leaves, or of two levels over 2 * b
\* leaves, and a query from below its first key to above its last
ChildInputs ==
    UNION {{Input("child_idx", [sizes |-> sizes, levels |-> 1, q |-> q]) :
                q \in (CAP + 1)..((Len(sizes) + 1) * (CAP + 1))} :
           sizes \in [1..2 -> Fills] \cup [1..3 -> Fills]}
      \cup UNION {{Input("child_idx",
                         [sizes |-> [i \in 1..(2 * b) |-> IF i = j THEN CAP ELSE b],
                          levels |-> 2, q |-> q]) :
                      q \in (CAP + 1)..((2 * b + 1) * (CAP + 1))} :
                 j \in 0..(2 * b)}

\* The Internal node of the given levels with the given number of children:
\* leaves, or nodes over b leaves each, the leaves being 1, 2, ...
NodeAbove(levels, kids) ==
    IF levels = 1 THEN NodeOver(1, kids)
    ELSE [kind |-> "Internal", head |-> 1, tail |-> kids * b,
          children |-> [i \in 1..kids |-> NodeOver((i - 1) * b + 1, i * b)]]

\* The InternalNode of the given levels with the given number of children
InternalNodeAbove(levels, kids) ==
    IF levels = 1 THEN InternalNodeOver(1, kids)
    ELSE [children |->
             [i \in 1..kids |->
                 [head_leaf |-> (i - 1) * B + 1,
                  internal |-> Some(InternalNodeOver((i - 1) * B + 1, i * B))]]]

\* A node of one, two or three children, leaves or nodes over b leaves, and
\* the first key below it
PopInputs ==
    {Input("pop_depth", [sizes |-> sizes, levels |-> 1, kids |-> Len(sizes),
                         q |-> CAP + 2]) :
        sizes \in [1..1 -> {b, CAP}] \cup [1..2 -> {b, CAP}] \cup [1..3 -> {b, CAP}]}
      \cup {Input("pop_depth", [sizes |-> [i \in 1..(k * b) |-> b], levels |-> 2,
                                kids |-> k, q |-> CAP + 2]) : k \in 1..3}

OpInit ==
    /\ last \in NewInputs \cup SplitInputs \cup LeafInputs \cup NodeInputs
                   \cup ParentInputs \cup ChildInputs \cup InsertInputs
                   \cup PopInputs
    /\ gheap = ChainHeap(last.in.sizes)
    /\ fheap = ChainHeap(last.in.sizes)
    /\ gmap = Map_new
    /\ fmap = BTreeMap_new
    /\ ref = [k \in AllKeys |-> Absent]
    /\ keys = {}

\* The call of `last` returns out
Returned(out) == last' = [last EXCEPT !.done = TRUE, !.out = out]

OpNew ==
    /\ last.op = "new" /\ ~last.done
    /\ Returned(Map_new_checked(last.in.cap))
    /\ UNCHANGED <<gmap, gheap, fmap, fheap, ref, keys>>

OpSplit ==
    /\ last.op = "insert_or_split" /\ ~last.done
    /\ Returned([g |-> insert_or_split(last.in.buf, last.in.idx, last.in.new, CAP, b),
                 f |-> insert_or_split(last.in.buf, last.in.idx, last.in.new,
                                       CAPACITY, B)])
    /\ UNCHANGED <<gmap, gheap, fmap, fheap, ref, keys>>

OpLeafBalance ==
    /\ last.op = "leaf_balance" /\ ~last.done
    /\ LET did(g, f) ==
               /\ gheap' = g.heap
               /\ fheap' = f.heap
               /\ Returned([g |-> [drained |-> g.drained, fault |-> g.fault],
                            f |-> [drained |-> f.consumed, fault |-> f.fault]])
       IN did(Leaf_balance_or_drain(gheap, last.in.this, last.in.next,
                                    last.in.lacking_next),
              LeafNode_balance_or_drain(fheap, last.in.this, last.in.next,
                                        last.in.lacking_next))
    /\ UNCHANGED <<gmap, fmap, ref, keys>>

OpNodeBalance ==
    /\ last.op = "node_balance" /\ ~last.done
    /\ LET n1 == last.in.n1
           n2 == last.in.n2
           did(g, f) ==
               Returned([g |-> [this |-> g.left, next |-> g.right,
                                drained |-> g.drained, fault |-> g.fault],
                         f |-> [this |-> f.this, next |-> f.next,
                                drained |-> f.consumed, fault |-> FALSE]])
       IN did(Internal_balance_or_drain(gheap, NodeOver(1, n1), NodeOver(n1 + 1, n1 + n2),
                                        last.in.lacking_next),
              InternalNode_balance_or_drain(InternalNodeOver(1, n1),
                                            InternalNodeOver(n1 + 1, n1 + n2),
                                            last.in.lacking_next))
    /\ UNCHANGED <<gmap, gheap, fmap, fheap, ref, keys>>

OpParentRemove ==
    /\ last.op = "parent_remove" /\ ~last.done
    /\ LET n == Len(last.in.sizes)
           h == last.in.q \div (CAP + 1)
           did(g, f, gl, fl) ==
               /\ gheap' = g.heap
               /\ fheap' = f.heap
               /\ Returned([g |-> [children |-> g.node.children, res |-> g.res,
                                   need_merge |-> g.need_merge, fault |-> g.fault],
                            f |-> [children |-> f.node.children, res |-> f.res,
                                   need_merge |-> f.need_merge, fault |-> f.fault],
                            gl |-> [res |-> gl.res, need_merge |-> gl.need_merge],
                            fl |-> [res |-> fl.res, need_merge |-> fl.need_merge]])
       IN did(Internal_remove(gheap, NodeOver(1, n), last.in.q),
              InternalNode_remove(fheap, InternalNodeOver(1, n), last.in.q),
              Leaf_remove(gheap, h, last.in.q),
              LeafNode_remove(fheap, h, last.in.q))
    /\ UNCHANGED <<gmap, fmap, ref, keys>>

OpChildIdx ==
    /\ last.op = "child_idx" /\ ~last.done
    /\ LET kids == IF last.in.levels = 1 THEN Len(last.in.sizes) ELSE 2
           g == NodeAbove(last.in.levels, kids)
       IN Returned([find |-> find_idx(gheap, g.kind, g.children, last.in.q),
                    g |-> Internal_child_idx(gheap, g, last.in.q),
                    f |-> InternalNode_child_idx(fheap,
                                                 InternalNodeAbove(last.in.levels, kids),
                                                 last.in.q)])
    /\ UNCHANGED <<gmap, gheap, fmap, fheap, ref, keys>>

OpParentInsert ==
    /\ last.op = "parent_insert" /\ ~last.done
    /\ LET n == Len(last.in.sizes)
           entry == <<last.in.q, 2>>
           did(g, f, gl, fl) ==
               /\ gheap' = g.heap
               /\ fheap' = f.heap
               /\ Returned([g |-> [children |-> g.node.children, prev |-> g.prev,
                                   new |-> g.new, fault |-> g.fault],
                            f |-> [children |-> f.node.children, prev |-> f.prev,
                                   new |-> f.new, fault |-> f.fault],
                            gl |-> [prev |-> gl.prev, new |-> gl.new],
                            fl |-> [prev |-> fl.prev, new |-> fl.new]])
       IN did(Internal_insert(gheap, NodeOver(1, n), entry),
              InternalNode_insert(fheap, InternalNodeOver(1, n), entry),
              Leaf_insert(gheap, last.in.h, entry),
              LeafNode_insert(fheap, last.in.h, entry))
    /\ UNCHANGED <<gmap, fmap, ref, keys>>

\* pop_depth on the node, and Root::remove, which gives up an only child
\* itself, on a root of two or more children
OpPopDepth ==
    /\ last.op = "pop_depth" /\ ~last.done
    /\ LET did(g, f) ==
               /\ fheap' = f.heap
               /\ Returned([g |-> g, f |-> [root |-> f.root, res |-> f.res,
                                            fault |-> f.fault]])
       IN did(Internal_pop_depth(NodeAbove(last.in.levels, last.in.kids)),
              IF last.in.kids >= 2
              THEN Root_remove(fheap,
                               InternalRoot(InternalNodeAbove(last.in.levels,
                                                              last.in.kids)),
                               last.in.q)
              ELSE [heap |-> fheap, root |-> EmptyRoot, res |-> None, fault |-> FALSE])
    /\ UNCHANGED <<gmap, gheap, fmap, ref, keys>>

OpNext ==
    \/ OpNew \/ OpSplit \/ OpLeafBalance \/ OpNodeBalance \/ OpParentRemove
    \/ OpChildIdx \/ OpParentInsert \/ OpPopDepth

OpSpec == OpInit /\ [][OpNext]_vars

C17_EvenWitness == last.op = "new" /\ last.done /\ last.in.cap = CAP + 1 /\ ~last.out.ok
C17_SmallWitness == last.op = "new" /\ last.done /\ last.in.cap = 3 /\ ~last.out.ok

\* What insert_or_split leaves of buf for the new element at idx, as stated:
\* r.buf is the retained buffer, r.new_buf the sibling, bb the minimum fill
SplitAsStated(r, buf, idx, new, cap, bb) ==
    LET whole == SubSeq(buf, 1, idx) \o <<new>> \o SubSeq(buf, idx + 1, Len(buf))
    IN
    IF Len(buf) = cap
    THEN /\ IsSome(r.new_buf)
         /\ Len(r.buf) = bb /\ Len(r.new_buf[1]) = bb
         /\ r.buf \o r.new_buf[1] = whole
         /\ IF idx < bb
            THEN /\ r.new_buf[1] = [i \in 1..(cap - bb + 1) |-> buf[bb - 1 + i]]
                 /\ r.buf[idx + 1] = new
            ELSE /\ \A i \in 1..bb : r.buf[i] = buf[i]
                 /\ r.new_buf[1][idx - bb + 1] = new
                 /\ \A i \in (bb + 1)..cap : \E j \in 1..bb : r.new_buf[1][j] = buf[i]
    ELSE /\ ~IsSome(r.new_buf)
         /\ r.buf = whole

\* C18: insert_or_split of a new element at its sorted position idx into a
\* full buffer of CAP elements gives, if idx < B, a sibling of the old
\* elements B-1 .. CAP-1 and the new element at idx of the retained buffer,
\* otherwise a sibling of the old elements B .. CAP-1 with the new element
\* at idx - B of it; either way both hold exactly B elements and together,
\* retained then sibling, the old elements with the new one at idx.  Into a
\* buffer that is not full the element is inserted at idx, with no sibling.
C18_Split ==
    (last.op = "insert_or_split" /\ last.done) =>
        /\ SplitAsStated(last.out.g, last.in.buf, last.in.idx, last.in.new, CAP, b)
        /\ SplitAsStated(last.out.f, last.in.buf, last.in.idx, last.in.new,
                         CAPACITY, B)

\* C18 is exercised: a full buffer has been split for a new element that
\* went into the sibling, after its first element.
C18_Witness ==
    /\ last.op = "insert_or_split" /\ last.done
    /\ Len(last.in.buf) = CAP /\ last.in.idx > b
    /\ IsSome(last.out.g.new_buf) /\ IsSome(last.out.f.new_buf)

\* C18 is exercised: a full buffer has been split for a new element that
\* stayed in the retained buffer, and a buffer with room has taken one.
C18_LowWitness ==
    /\ last.op = "insert_or_split" /\ last.done
    /\ Len(last.in.buf) = CAP /\ last.in.idx = b - 1
    /\ IsSome(last.out.g.new_buf)
C18_RoomWitness ==
    /\ last.op = "insert_or_split" /\ last.done
    /\ Len(last.in.buf) = CAP - 1 /\ ~IsSome(last.out.g.new_buf)

\* The sizes of the donor of a balance_or_drain between siblings of n1 and
\* n2 elements
Donor(n1, n2, lacking_next) == IF lacking_next THEN n1 ELSE n2

\* The leaves this and next of the arena H, which held H0, have merged:
\* this holds the entries of both and has the next of next, next is empty
LeafDrained(H0, H, this, next) ==
    /\ H[this].entries = H0[this].entries \o H0[next].entries
    /\ Len(H[this].entries) <= CAP
    /\ H[this].next = H0[next].next
    /\ H[next].entries = <<>>
    /\ \A h \in Handles \ {this, next} : H[h] = H0[h]

\* The pair of children a remove below child h (of n) balances: the child
\* and its left neighbour, or the first two
PairOf(h) == IF h = 1 THEN <<1, 2>> ELSE <<h - 1, h>>

\* The child of the parent that the key q of the inputs lies below
ChildOf(q) == q \div (CAP + 1)

\* C19: a balance_or_drain whose donor holds at most B elements appends all
\* the elements of the right sibling to the left one, which then holds at
\* most CAP; between leaves the left leaf takes the next of the drained one;
\* the call reports the right sibling consumed, and the parent removes that
\* child and no other.
C19_Drain ==
    /\ (/\ last.op = "leaf_balance" /\ last.done
        /\ Donor(last.in.sizes[1], last.in.sizes[2], last.in.lacking_next) <= b) =>
          /\ last.out.g = [drained |-> TRUE, fault |-> FALSE]
          /\ last.out.f = [drained |-> TRUE, fault |-> FALSE]
          /\ LeafDrained(ChainHeap(last.in.sizes), gheap, last.in.this, last.in.next)
          /\ LeafDrained(ChainHeap(last.in.sizes), fheap, last.in.this, last.in.next)
    /\ (/\ last.op = "node_balance" /\ last.done
        /\ Donor(last.in.n1, last.in.n2, last.in.lacking_next) <= b) =>
          /\ last.out.g.drained /\ ~last.out.g.fault
          /\ last.out.g.this.children = Asc(1, last.in.n1 + last.in.n2)
          /\ last.out.g.this.tail = last.in.n1 + last.in.n2
          /\ last.out.g.next.children = <<>>
          /\ last.out.f.drained
          /\ last.out.f.this = InternalNodeOver(1, last.in.n1 + last.in.n2)
          /\ last.out.f.next.children = <<>>
          /\ last.in.n1 + last.in.n2 <= CAP
    /\ (last.op = "parent_remove" /\ last.done) =>
          LET sizes == last.in.sizes
              n == Len(sizes)
              h == ChildOf(last.in.q)
              pair == PairOf(h)
              H0 == ChainHeap(sizes)
              kept == [i \in 1..(n - 1) |-> IF i < pair[2] THEN i ELSE i + 1]
              merged(H) ==
                  /\ KeysOf(H[pair[1]].entries)
                         = SelectSeq(KeysOf(H0[pair[1]].entries \o H0[pair[2]].entries),
                                     LAMBDA k : k # last.in.q)
                  /\ H[pair[1]].next = H0[pair[2]].next
          IN (sizes[h] = b /\ sizes[pair[1]] = b /\ sizes[pair[2]] = b) =>
                /\ ~last.out.g.fault /\ ~last.out.f.fault
                /\ last.out.g.res = Some(<<last.in.q, 1>>)
                /\ last.out.f.res = Some(<<last.in.q, 1>>)
                /\ last.out.g.children = kept
                /\ last.out.f.children = [i \in 1..(n - 1) |-> LeafChild(kept[i])]
                /\ merged(gheap) /\ merged(fheap)

\* C19 is exercised: two leaves, the right one lacking and followed by a
\* third leaf, have merged, and the left leaf is followed by the third.
C19_Witness ==
    /\ last.op = "leaf_balance" /\ last.done /\ last.in.lacking_next
    /\ Len(last.in.sizes) = 3
    /\ last.out.g.drained /\ last.out.f.drained
    /\ gheap[1].next = 3 /\ fheap[1].next = 3
    /\ Len(gheap[1].entries) = CAP

\* C19 is exercised: a parent of three leaves has removed the second after
\* it merged into the first, and the third after it merged into the second.
C19_ParentWitness ==
    /\ last.op = "parent_remove" /\ last.done
    /\ Len(last.in.sizes) = 3 /\ ChildOf(last.in.q) \in {1, 2}
    /\ last.out.g.children = <<1, 3>>
C19_LastWitness ==
    /\ last.op = "parent_remove" /\ last.done
    /\ Len(last.in.sizes) = 3 /\ ChildOf(last.in.q) = 3
    /\ last.out.g.children = <<1, 2>>

\* One element has moved between the sequences this0 and next0, giving this
\* and next: the last of this0 to the front of next0 if next was lacking,
\* else the first of next0 to the end of this0
Moved(this0, next0, this, next, lacking_next) ==
    /\ IF lacking_next
       THEN /\ this = SubSeq(this0, 1, Len(this0) - 1)
            /\ next = <<this0[Len(this0)]>> \o next0
       ELSE /\ this = this0 \o <<next0[1]>>
            /\ next = SubSeq(next0, 2, Len(next0))
    /\ Len(this) >= b /\ Len(next) >= b
    /\ this \o next = this0 \o next0

\* C20: a balance_or_drain between a sibling of B - 1 elements and one of
\* more than B moves exactly one element: the last of the left one to the
\* front of the right one if the right one is lacking, the first of the
\* right one to the end of the left one if the left one is; no sibling is
\* consumed, both end with at least B elements, the sequence of the two is
\* unchanged, and so are the links of the leaves and the parent's children.
C20_Borrow ==
    /\ (/\ last.op = "leaf_balance" /\ last.done
        /\ Donor(last.in.sizes[1], last.in.sizes[2], last.in.lacking_next) > b) =>
          LET H0 == ChainHeap(last.in.sizes)
              moved(H) ==
                  /\ Moved(H0[1].entries, H0[2].entries, H[1].entries, H[2].entries,
                           last.in.lacking_next)
                  /\ \A h \in Handles : H[h].next = H0[h].next /\ H[h].prev = H0[h].prev
                  /\ \A h \in Handles \ {1, 2} : H[h] = H0[h]
          IN /\ last.out.g = [drained |-> FALSE, fault |-> FALSE]
             /\ last.out.f = [drained |-> FALSE, fault |-> FALSE]
             /\ moved(gheap) /\ moved(fheap)
    /\ (/\ last.op = "node_balance" /\ last.done
        /\ Donor(last.in.n1, last.in.n2, last.in.lacking_next) > b) =>
          LET n1 == last.in.n1
              n2 == last.in.n2
          IN /\ ~last.out.g.drained /\ ~last.out.g.fault /\ ~last.out.f.drained
             /\ Moved(Asc(1, n1), Asc(n1 + 1, n1 + n2), last.out.g.this.children,
                      last.out.g.next.children, last.in.lacking_next)
             /\ Moved(InternalNodeOver(1, n1).children,
                      InternalNodeOver(n1 + 1, n1 + n2).children,
                      last.out.f.this.children, last.out.f.next.children,
                      last.in.lacking_next)
             /\ last.out.g.this.tail = VecLast(last.out.g.this.children)
             /\ last.out.g.next.head = last.out.g.next.children[1]
    /\ (last.op = "parent_remove" /\ last.done) =>
          LET sizes == last.in.sizes
              n == Len(sizes)
              h == ChildOf(last.in.q)
              pair == PairOf(h)
              other == IF h = 1 THEN 2 ELSE h - 1
              lent(H) ==
                  /\ Len(H[h].entries) = b
                  /\ Len(H[other].entries) = sizes[other] - 1
                  /\ KeysOf(H[pair[1]].entries \o H[pair[2]].entries)
                         = SelectSeq(KeysOf(ChainHeap(sizes)[pair[1]].entries
                                                \o ChainHeap(sizes)[pair[2]].entries),
                                     LAMBDA k : k # last.in.q)
          IN (sizes[h] = b /\ sizes[other] > b) =>
                /\ ~last.out.g.fault /\ ~last.out.f.fault
                /\ last.out.g.children = Asc(1, n)
                /\ last.out.f.children = InternalNodeOver(1, n).children
                /\ last.out.g.need_merge = (n < b)
                /\ last.out.f.need_merge = (n < B)
                /\ lent(gheap) /\ lent(fheap)

\* C20 is exercised: a lacking right leaf has taken the last entry of a full
\* left leaf.
C20_Witness ==
    /\ last.op = "leaf_balance" /\ last.done /\ last.in.lacking_next
    /\ last.in.sizes[1] = CAP /\ last.in.sizes[2] = b - 1
    /\ ~last.out.g.drained /\ ~last.out.f.drained
    /\ Len(gheap[1].entries) = CAP - 1 /\ Len(gheap[2].entries) = b
    /\ gheap[2].entries[1] = <<(CAP + 1) + CAP, 1>>

\* C20 is exercised: a lacking left node has taken the first child of its
\* right sibling.
C20_NodeWitness ==
    /\ last.op = "node_balance" /\ last.done /\ ~last.in.lacking_next
    /\ last.in.n2 > b
    /\ Len(last.out.g.this.children) = b /\ Len(last.out.f.this.children) = B

----------------------------------------------------------------------------
(* Claims on the calls of the maps, continued *)

RECURSIVE Internal_sound(_, _, _)
\* No fail-fast branch can be met below node: every leaf holds an entry, the
\* heads and tails are leaves that hold one, every node other than the root
\* has a sibling for each child, and the children of a node are of one kind
Internal_sound(H, node, root) ==
    /\ node.children # <<>>
    /\ root \/ Len(node.children) >= 2
    /\ Leaf_first(H, node.head) # NoKey /\ Leaf_last(H, node.tail) # NoKey
    /\ \A i \in 1..Len(node.children) :
          IF node.kind = "Leaf"
          THEN /\ node.children[i] \in Handles
               /\ H[node.children[i]].entries # <<>>
          ELSE /\ node.children[i].kind = node.children[1].kind
               /\ Internal_sound(H, node.children[i], FALSE)

RECURSIVE InternalNode_sound(_, _)
\* The same for the fixed-capacity engine, whose root too has two children
InternalNode_sound(H, node) ==
    /\ Len(node.children) >= 2
    /\ \A i \in 1..Len(node.children) :
          /\ IsSome(node.children[i].internal) = IsSome(node.children[1].internal)
          /\ H[node.children[i].head_leaf].entries # <<>>
          /\ IsSome(node.children[i].internal)
                 => InternalNode_sound(H, node.children[i].internal[1])
          /\ ~IsSome(node.children[i].internal)
                 => H[node.children[i].head_leaf].used

\* C21: no call reaches a fail-fast branch, and none can from the trees as
\* they stand: every leaf reachable from a root holds an entry when its first
\* or last key is read, every internal node other than a root has at least
\* two children, so that a deficient child has a neighbour, and the children
\* of a node, of which balance_or_drain is given two, are all leaves or all
\* internal nodes.
C21_NoFailFast ==
    /\ ~last.gfault /\ ~last.ffault
    /\ IsSome(gmap.root) => Internal_sound(gheap, gmap.root[1], TRUE)
    /\ fmap.root.tag = "Internal" => InternalNode_sound(fheap, fmap.root.body[1])
    /\ fmap.root.tag = "Leaf" => fheap[fmap.root.body[1]].entries # <<>>

\* C21 is exercised: a remove in trees of height three has merged two
\* leaves and shrunk a node below the root, which was rebalanced with its
\* neighbour.
C21_Witness ==
    /\ last.op = "remove" /\ IsSome(last.rres)
    /\ last.before.gheight = 3 /\ Map_height(gmap) = 3
    /\ last.before.fheight = 3 /\ BTreeMap_height(fmap) = 3
    /\ Len(GLeaves) = last.before.gleaves - 1
    /\ Len(FLeaves) = last.before.fleaves - 1
    /\ Map_fan(gmap) # last.before.gfan /\ BTreeMap_fan(fmap) # last.before.ffan

\* C22: a child of an internal node that lacks after a remove is balanced
\* against its left neighbour if it is not the first child, and against the
\* second child if it is the first; no other child is touched.  A lacking
\* child that is not the first merges into a left neighbour of exactly B
\* elements whatever its right neighbour holds, and a child that does not
\* lack is balanced against none.
C22_LeftFirst ==
    (last.op = "parent_remove" /\ last.done) =>
        LET sizes == last.in.sizes
            n == Len(sizes)
            h == ChildOf(last.in.q)
            pair == PairOf(h)
            other == IF h = 1 THEN 2 ELSE h - 1
            H0 == ChainHeap(sizes)
            kept == [i \in 1..(n - 1) |-> IF i < pair[2] THEN i ELSE i + 1]
            balanced(H) ==
                /\ \A k \in Handles \ {pair[1], pair[2]} : H[k] = H0[k]
                /\ KeysOf(H[pair[1]].entries \o H[pair[2]].entries)
                       = SelectSeq(KeysOf(H0[pair[1]].entries \o H0[pair[2]].entries),
                                   LAMBDA k : k # last.in.q)
                /\ IF sizes[other] = b
                   THEN Len(H[pair[1]].entries) = 2 * b - 1 /\ H[pair[2]].entries = <<>>
                   ELSE Len(H[h].entries) = b /\ Len(H[other].entries) = sizes[other] - 1
            alone(H) ==
                /\ \A k \in Handles \ {h} : H[k] = H0[k]
                /\ Len(H[h].entries) = sizes[h] - 1
        IN /\ ~last.out.g.fault /\ ~last.out.f.fault
           /\ IF sizes[h] = b
              THEN /\ balanced(gheap) /\ balanced(fheap)
                   /\ last.out.g.children = IF sizes[other] = b THEN kept ELSE Asc(1, n)
                   /\ last.out.f.children
                          = IF sizes[other] = b
                            THEN [i \in 1..(n - 1) |-> LeafChild(kept[i])]
                            ELSE InternalNodeOver(1, n).children
              ELSE /\ alone(gheap) /\ alone(fheap)
                   /\ last.out.g.children = Asc(1, n)
                   /\ last.out.f.children = InternalNodeOver(1, n).children

\* C22 is exercised: the second of three leaves lacked, its left neighbour
\* held B entries and its right neighbour CAP; it has merged into the left
\* one and the right one is as it was.
C22_Witness ==
    /\ last.op = "parent_remove" /\ last.done
    /\ last.in.sizes = <<b, b, CAP>> /\ ChildOf(last.in.q) = 2
    /\ last.out.g.children = <<1, 3>>
    /\ last.out.f.children = <<LeafChild(1), LeafChild(3)>>
    /\ Len(gheap[1].entries) = 2 * b - 1 /\ Len(fheap[1].entries) = 2 * B - 1
    /\ Len(gheap[3].entries) = CAP /\ Len(fheap[3].entries) = CAP

\* C22 is exercised: the first of three leaves lacked and has taken the
\* first entry of the second.
C22_FirstWitness ==
    /\ last.op = "parent_remove" /\ last.done
    /\ last.in.sizes = <<b, CAP, b>> /\ ChildOf(last.in.q) = 1
    /\ last.out.g.children = <<1, 2, 3>>
    /\ Len(gheap[2].entries) = CAP - 1 /\ Len(fheap[2].entries) = CAP - 1
    /\ gheap[3] = ChainHeap(last.in.sizes)[3]

\* The leaves below each child of the node of the inputs of child_idx, as
\* pairs <<first leaf, last leaf>>
Below(in) ==
    IF in.levels = 1 THEN [i \in 1..Len(in.sizes) |-> <<i, i>>]
    ELSE <<<<1, Len(in.sizes) \div 2>>, <<Len(in.sizes) \div 2 + 1, Len(in.sizes)>>>>

\* The first and the last key below child i (from 1) of that node
FirstBelow(in, i) == Below(in)[i][1] * (CAP + 1) + 1
LastBelow(in, i) == Below(in)[i][2] * (CAP + 1) + in.sizes[Below(in)[i][2]]

\* The highest index (from 0) of a child whose first key is at most q, and 0
\* if only the first child could qualify
Highest(in) ==
    LET ok == {i \in 2..Len(Below(in)) : FirstBelow(in, i) <= in.q}
    IN IF ok = {} THEN 0 ELSE (CHOOSE i \in ok : \A j \in ok : j <= i) - 1

\* C23 as stated: every selection of a child, for every query, returns the
\* highest-indexed child whose first key is at most the query.
C23_AlwaysSelects ==
    (last.op = "child_idx" /\ last.done /\ last.in.q >= FirstBelow(last.in, 1)) =>
        /\ last.out.find = [idx |-> Highest(last.in), fault |-> FALSE]
        /\ last.out.f = [idx |-> Highest(last.in), fault |-> FALSE]
        /\ last.out.g = [res |-> Some(Highest(last.in)), fault |-> FALSE]

\* The child (from 1) of that node that holds the key q, 0 if none does
Holder(in) ==
    LET has == {i \in 1..Len(Below(in)) :
                   \E h \in Below(in)[i][1]..Below(in)[i][2] :
                       /\ in.q > h * (CAP + 1)
                       /\ in.q <= h * (CAP + 1) + in.sizes[h]}
    IN IF has = {} THEN 0 ELSE CHOOSE i \in has : TRUE

\* C23: find_idx and InternalNode::child_idx return, for every query, the
\* highest-indexed child whose first key is at most the query, and child 0
\* if no other child qualifies; Internal::child_idx returns that child for a
\* query from the node's first key to its last key and none for a query
\* above its last key.  A key stored below the node is sent to the child
\* that holds it, and a key not stored to the child whose range it is in.
C23_Selects ==
    (last.op = "child_idx" /\ last.done) =>
        LET in == last.in
            n == Len(Below(in))
            idx == Highest(in)
        IN /\ last.out.find = [idx |-> idx, fault |-> FALSE]
           /\ last.out.f = [idx |-> idx, fault |-> FALSE]
           /\ in.q >= FirstBelow(in, 1) =>
                 last.out.g = [res |-> IF in.q <= LastBelow(in, n) THEN Some(idx)
                                       ELSE None,
                               fault |-> FALSE]
           /\ Holder(in) # 0 => idx + 1 = Holder(in)
           /\ \A i \in 1..n :
                 (/\ i = 1 \/ FirstBelow(in, i) <= in.q
                  /\ i = n \/ in.q < FirstBelow(in, i + 1)) => idx + 1 = i

\* C23 is exercised: a key stored in the last leaf below the second child of
\* a node over internal nodes is sent to the second child.
C23_Witness ==
    /\ last.op = "child_idx" /\ last.done /\ last.in.levels = 2
    /\ last.in.q = LastBelow(last.in, 2) /\ Holder(last.in) = 2
    /\ last.out.find.idx = 1 /\ last.out.f.idx = 1 /\ last.out.g.res = Some(1)

\* C23 is exercised: a key between the last key of the first leaf and the
\* first key of the second is sent to the first child, and a key equal to
\* the first key of the third leaf to the third child.
C23_GapWitness ==
    /\ last.op = "child_idx" /\ last.done /\ last.in.levels = 1
    /\ last.in.sizes[1] < CAP /\ last.in.q = LastBelow(last.in, 1) + 1
    /\ last.out.find.idx = 0 /\ last.out.f.idx = 0 /\ last.out.g.res = Some(0)
C23_EqualWitness ==
    /\ last.op = "child_idx" /\ last.done /\ Len(last.in.sizes) = 3
    /\ last.in.q = FirstBelow(last.in, 3)
    /\ last.out.find.idx = 2 /\ last.out.f.idx = 2 /\ last.out.g.res = Some(2)

\* C23 is exercised: Internal::child_idx selects no child for a query above
\* the last key of the node, where find_idx selects the last child.
C23_AboveWitness ==
    /\ last.op = "child_idx" /\ last.done
    /\ last.in.q > LastBelow(last.in, Len(Below(last.in)))
    /\ last.out.g = [res |-> None, fault |-> FALSE]
    /\ last.out.find.idx = Len(Below(last.in)) - 1

\* C24: a leaf returns a new sibling from insert exactly when it held CAP
\* entries and the key is new to it, and an internal node exactly when it
\* held CAP children and its child returned a new sibling.  The sibling of
\* a leaf stands right after that leaf among the children of the parent,
\* taken with those of the parent's new sibling if the parent split; with
\* no sibling returned the children are as they were.
C24_Sibling ==
    (last.op = "parent_insert" /\ last.done) =>
        LET sizes == last.in.sizes
            n == Len(sizes)
            h == last.in.h
            fresh == last.in.q <= h * (CAP + 1) \/ last.in.q > h * (CAP + 1) + sizes[h]
            leaf_splits == sizes[h] = CAP /\ fresh
            node_splits == n = CAP /\ leaf_splits
            linked == [i \in 1..(n + 1) |->
                          IF i <= h THEN i ELSE IF i = h + 1 THEN n + 1 ELSE i - 1]
            all(o) == o.children \o (IF IsSome(o.new) THEN o.new[1].children ELSE <<>>)
        IN /\ ~last.out.g.fault /\ ~last.out.f.fault
           /\ IsSome(last.out.gl.new) = leaf_splits
           /\ IsSome(last.out.fl.new) = leaf_splits
           /\ IsSome(last.out.g.new) = node_splits
           /\ IsSome(last.out.f.new) = node_splits
           /\ IsSome(last.out.g.prev) = ~fresh /\ IsSome(last.out.gl.prev) = ~fresh
           /\ IsSome(last.out.f.prev) = ~fresh /\ IsSome(last.out.fl.prev) = ~fresh
           /\ leaf_splits => last.out.gl.new = Some(n + 1) /\ last.out.fl.new = Some(n + 1)
           /\ all(last.out.g) = IF leaf_splits THEN linked ELSE Asc(1, n)
           /\ all(last.out.f) = IF leaf_splits
                                THEN [i \in 1..(n + 1) |-> LeafChild(linked[i])]
                                ELSE InternalNodeOver(1, n).children
           /\ ~node_splits /\ leaf_splits =>
                 /\ last.out.g.children[h + 1] = n + 1
                 /\ last.out.f.children[h + 1] = LeafChild(n + 1)

\* C24 is exercised: a full leaf below a full parent took a new key; the
\* leaf and the parent both returned a sibling.
C24_Witness ==
    /\ last.op = "parent_insert" /\ last.done
    /\ Len(last.in.sizes) = CAP /\ last.in.sizes[last.in.h] = CAP
    /\ IsSome(last.out.gl.new) /\ IsSome(last.out.fl.new)
    /\ IsSome(last.out.g.new) /\ IsSome(last.out.f.new)
    /\ Len(last.out.g.children) + Len(last.out.g.new[1].children) = CAP + 1

\* C24 is exercised: a full leaf below a parent with room took a new key;
\* only the leaf returned a sibling, now the child after it.
C24_RoomWitness ==
    /\ last.op = "parent_insert" /\ last.done
    /\ Len(last.in.sizes) = CAP - 1 /\ last.in.h = 2
    /\ IsSome(last.out.gl.new) /\ ~IsSome(last.out.g.new) /\ ~IsSome(last.out.f.new)
    /\ last.out.g.children[3] = CAP /\ last.out.f.children[3] = LeafChild(CAP)

\* C24 is exercised: a full leaf below a full parent took a key it held, and
\* a leaf with room a new key; neither returned a sibling.
C24_ReplaceWitness ==
    /\ last.op = "parent_insert" /\ last.done
    /\ Len(last.in.sizes) = CAP /\ last.in.sizes[last.in.h] = CAP
    /\ IsSome(last.out.g.prev) /\ ~IsSome(last.out.gl.new) /\ ~IsSome(last.out.g.new)
C24_SpareWitness ==
    /\ last.op = "parent_insert" /\ last.done
    /\ Len(last.in.sizes) = CAP /\ last.in.sizes[last.in.h] = b
    /\ ~IsSome(last.out.g.prev) /\ ~IsSome(last.out.gl.new) /\ ~IsSome(last.out.g.new)
    /\ Len(gheap[last.in.h].entries) = b + 1

\* C25: after a remove that merged two leaves the drained leaf is dropped:
\* it is among no children, no head or tail of a node and no head_leaf of a
\* child keeps it, and the next of no leaf of the map refers to it.  The
\* leaves of the map are 1 .. Len(GLeaves) and 1 .. Len(FLeaves); a leaf
\* kept outside the children has a higher number, and a reference to a
\* dropped leaf is Dangling.
C25_Unreferenced ==
    /\ (/\ last.op = "remove" /\ Len(GLeaves) >= 1
        /\ Len(GLeaves) = last.before.gleaves - 1) =>
          /\ \A h \in Handles : gheap[h].used = (h <= Len(GLeaves))
          /\ Internal_strong(gmap.root[1]) \subseteq 1..Len(GLeaves)
          /\ \A h \in 1..Len(GLeaves) :
                /\ gheap[h].entries # <<>>
                /\ gheap[h].next = IF h = Len(GLeaves) THEN NoLeaf ELSE h + 1
    /\ (/\ last.op = "remove" /\ Len(FLeaves) >= 1
        /\ Len(FLeaves) = last.before.fleaves - 1) =>
          /\ \A h \in Handles : fheap[h].used = (h <= Len(FLeaves))
          /\ Root_strong(fmap.root) \subseteq 1..Len(FLeaves)
          /\ \A h \in 1..Len(FLeaves) :
                /\ fheap[h].entries # <<>>
                /\ fheap[h].next = IF h = Len(FLeaves) THEN NoLeaf ELSE h + 1

\* C25 is exercised: a remove has merged the last leaf of a map of height 2
\* or more into the leaf before it, which is now the last of the chain.
C25_Witness ==
    /\ last.op = "remove"
    /\ IsSome(last.rres) /\ last.before.gheight >= 2 /\ last.before.fheight >= 2
    /\ Len(GLeaves) = last.before.gleaves - 1
    /\ Len(FLeaves) = last.before.fleaves - 1
    /\ \A k \in AllKeys : ref[k] # Absent => k < last.key

\* C26 as stated: the flag a successful remove returns is true exactly when
\* the count the node is left with is below B, for a leaf and for an
\* internal node, a root included.
C26_Exact ==
    (last.op = "parent_remove" /\ last.done) =>
        /\ IsSome(last.out.g.res) /\ IsSome(last.out.f.res)
        /\ last.out.gl.need_merge = (last.in.sizes[ChildOf(last.in.q)] - 1 < b)
        /\ last.out.fl.need_merge = (last.in.sizes[ChildOf(last.in.q)] - 1 < B)
        /\ last.out.g.need_merge = (Len(last.out.g.children) < b)
        /\ last.out.f.need_merge = (Len(last.out.f.children) < B)

\* C26: a successful remove on a leaf returns the flag true exactly when the
\* leaf is left with fewer than B entries.  On an internal node it returns
\* false if the child it removed from did not return true, whatever the
\* number of children, and otherwise true exactly when the node is left
\* with fewer than B children after the child is balanced; the two agree
\* on a node of B or more children, and differ on a root of fewer.
C26_Flag ==
    (last.op = "parent_remove" /\ last.done) =>
        LET sizes == last.in.sizes
            n == Len(sizes)
            h == ChildOf(last.in.q)
            lacks == sizes[h] - 1 < b
        IN /\ last.out.gl = [res |-> Some(<<last.in.q, 1>>), need_merge |-> lacks]
           /\ last.out.fl = [res |-> Some(<<last.in.q, 1>>), need_merge |-> lacks]
           /\ last.out.g.res = Some(<<last.in.q, 1>>)
           /\ last.out.f.res = Some(<<last.in.q, 1>>)
           /\ last.out.g.need_merge = (lacks /\ Len(last.out.g.children) < b)
           /\ last.out.f.need_merge = (lacks /\ Len(last.out.f.children) < B)
           /\ n >= b => /\ last.out.g.need_merge = (Len(last.out.g.children) < b)
                        /\ last.out.f.need_merge = (Len(last.out.f.children) < B)
           /\ Len(last.out.g.children) = Len(last.out.f.children)

\* C26 is exercised: a node of B leaves has lost a child to a merge and
\* returns true, and a node of B leaves whose leaf borrowed returns false.
C26_Witness ==
    /\ last.op = "parent_remove" /\ last.done
    /\ Len(last.in.sizes) = b /\ Len(last.out.g.children) = b - 1
    /\ last.out.gl.need_merge /\ last.out.fl.need_merge
    /\ last.out.g.need_merge /\ last.out.f.need_merge
C26_BorrowWitness ==
    /\ last.op = "parent_remove" /\ last.done
    /\ Len(last.in.sizes) = b /\ Len(last.out.g.children) = b
    /\ last.out.gl.need_merge /\ last.out.fl.need_merge
    /\ ~last.out.g.need_merge /\ ~last.out.f.need_merge

\* C26 is exercised: a root of two leaves, fewer than B, has removed a key
\* from a leaf that does not lack, and returns false.
C26_RootWitness ==
    /\ last.op = "parent_remove" /\ last.done
    /\ Len(last.in.sizes) = 2 /\ 2 < b
    /\ ~last.out.gl.need_merge /\ ~last.out.fl.need_merge
    /\ Len(last.out.g.children) = 2 /\ Len(last.out.f.children) = 2
    /\ ~last.out.g.need_merge /\ ~last.out.f.need_merge

\* C27 as stated: pop_depth returns the child of a node of exactly one
\* child, a leaf or an internal node, leaving the node without it, and none
\* for a node of two or more children, leaving the node as it was.
C27_AnyChild ==
    (last.op = "pop_depth" /\ last.done) =>
        LET node == NodeAbove(last.in.levels, last.in.kids)
        IN last.out.g = IF last.in.kids = 1
                        THEN [node |-> [node EXCEPT !.children = <<>>],
                              res |-> Some(node.children[1])]
                        ELSE [node |-> node, res |-> None]

\* C27: Internal::pop_depth returns the child of a node of exactly one
\* child if that child is an internal node, leaving the node without it; it
\* returns none, leaving the node as it was, for a node of one leaf and for
\* a node of two or more children.  Root::remove of the fixed-capacity map
\* makes the only child its root node has after the remove the root, a leaf
\* or an internal node, and keeps a root node of two or more children.
C27_PopDepth ==
    (last.op = "pop_depth" /\ last.done) =>
        LET in == last.in
            node == NodeAbove(in.levels, in.kids)
            merged == in.levels = 2 \/ (in.sizes[1] = b /\ in.sizes[2] = b)
            r == last.out.f.root
        IN /\ last.out.g = IF in.levels = 2 /\ in.kids = 1
                           THEN [node |-> [node EXCEPT !.children = <<>>],
                                 res |-> Some(NodeOver(1, b))]
                           ELSE [node |-> node, res |-> None]
           /\ in.kids >= 2 =>
                 /\ ~last.out.f.fault /\ last.out.f.res = Some(<<in.q, 1>>)
                 /\ IF in.kids = 2 /\ merged
                    THEN r = IF in.levels = 1
                             THEN [tag |-> "Leaf", body |-> <<1>>]
                             ELSE InternalRoot(
                                      [children |->
                                          [i \in 1..(2 * B - 1) |->
                                              LeafChild(IF i = 1 THEN 1 ELSE i + 1)]])
                    ELSE /\ r.tag = "Internal"
                         /\ Len(r.body[1].children)
                                = IF merged THEN in.kids - 1 ELSE in.kids

\* C27 is exercised: pop_depth has taken the only child, an internal node,
\* out of a node.
C27_Witness ==
    /\ last.op = "pop_depth" /\ last.done
    /\ last.in.levels = 2 /\ last.in.kids = 1
    /\ last.out.g.res = Some(NodeOver(1, b)) /\ last.out.g.node.children = <<>>

\* C27 is exercised: pop_depth has returned none for a node of one leaf, and
\* for a node of two internal nodes.
C27_LeafWitness ==
    /\ last.op = "pop_depth" /\ last.done
    /\ last.in.levels = 1 /\ last.in.kids = 1
    /\ last.out.g = [node |-> NodeOver(1, 1), res |-> None]
C27_TwoWitness ==
    /\ last.op = "pop_depth" /\ last.done
    /\ last.in.levels = 2 /\ last.in.kids = 2
    /\ last.out.g.res = None /\ Len(last.out.g.node.children) = 2

\* C27 is exercised: Root::remove has made the only leaf left below the
\* root the root, and the only internal node left below the root the root.
C27_RootLeafWitness ==
    /\ last.op = "pop_depth" /\ last.done
    /\ last.in.levels = 1 /\ last.in.kids = 2 /\ last.out.f.root.tag = "Leaf"
    /\ Len(fheap[1].entries) = 2 * B - 1
C27_RootNodeWitness ==
    /\ last.op = "pop_depth" /\ last.done
    /\ last.in.levels = 2 /\ last.in.kids = 2 /\ last.out.f.root.tag = "Internal"
    /\ Len(last.out.f.root.body[1].children) = 2 * B - 1

----------------------------------------------------------------------------
(* The calls of the maps level by level.  A third specification makes one  *)
(* call on a map of Init and follows it node by node: `last` holds the     *)
(* call and, for each map, a walker: the nodes the call has entered from   *)
(* the root down (path), the node or leaf it enters next, the leaf it has  *)
(* reached, and the number of levels it has returned from (back).  When    *)
(* both walkers are back at the root the call returns and the maps are as  *)
(* the call leaves them.                                                    *)

\* A walker about to enter the node (an Option) or the leaf toleaf; one with
\* neither turns back at once
Walker(node, toleaf) ==
    [state |-> IF IsSome(node) \/ toleaf # NoLeaf THEN "down" ELSE "up",
     path |-> <<>>, node |-> node, toleaf |-> toleaf, leaf |-> NoLeaf, back |-> 0]

\* The call enters the leaf, which does its part and returns
Walker_leaf(w) == [w EXCEPT !.leaf = w.toleaf, !.toleaf = NoLeaf, !.state = "up"]

\* A level that always goes to the first child
Internal_descend_first(H, w, op, q) ==
    LET n == w.node[1]
    IN [w EXCEPT !.path = Append(w.path, n),
                 !.node = IF n.kind = "Leaf" THEN None ELSE Some(n.children[1]),
                 !.toleaf = IF n.kind = "Leaf" THEN n.children[1] ELSE NoLeaf]

\* One level of Node::get, ::insert and ::remove for Box<Internal>: insert
\* goes to children[find_idx], get and remove to children[child_idx?] or
\* back with None
Internal_descend(H, w, op, q) ==
    LET n == w.node[1]
        into(child) ==
            [w EXCEPT !.path = Append(w.path, n),
                      !.node = IF n.kind = "Leaf" THEN None ELSE Some(child),
                      !.toleaf = IF n.kind = "Leaf" THEN child ELSE NoLeaf]
        back == [w EXCEPT !.path = Append(w.path, n), !.node = None, !.state = "up"]
        at(ci) == IF IsSome(ci.res) THEN into(n.children[ci.res[1] + 1]) ELSE back
        put(f) == into(n.children[f.idx + 1])
    IN IF op = "insert" THEN put(find_idx(H, n.kind, n.children, q))
       ELSE at(Internal_child_idx(H, n, q))

\* One level of InternalNode::get, ::insert and ::remove: to the internal
\* node or the head_leaf of children[idx]; insert of the first key of
\* children[idx + 1] replaces the head of its head_leaf and returns
InternalNode_descend(H, w, op, q) ==
    LET n == w.node[1]
        into(c) ==
            [w EXCEPT !.path = Append(w.path, n),
                      !.node = c.internal,
                      !.toleaf = IF IsSome(c.internal) THEN NoLeaf ELSE c.head_leaf]
        head(c) ==
            [w EXCEPT !.path = Append(w.path, n), !.node = None,
                      !.leaf = c.head_leaf, !.state = "up"]
        put(sr) == IF sr.ok THEN head(n.children[sr.idx + 2])
                   ELSE into(n.children[sr.idx + 1])
        at(ci) == into(n.children[ci.idx + 1])
    IN IF op = "insert" THEN put(InternalNode_search(H, n, q))
       ELSE at(InternalNode_child_idx(H, n, q))

\* The facade's part of a call: no root, or a get or remove of a key below
\* the first key, returns without entering the root
Map_walk(M, H, op, q) ==
    IF ~IsSome(M.root) THEN Walker(None, NoLeaf)
    ELSE IF op # "insert" /\ ~Internal_check_lower(H, M.root[1], q).ok
    THEN Walker(None, NoLeaf)
    ELSE Walker(M.root, NoLeaf)

\* Root::get, ::insert and ::remove: nothing, the root leaf, or the root node
BTreeMap_walk(M) ==
    IF M.root.tag = "Empty" THEN Walker(None, NoLeaf)
    ELSE IF M.root.tag = "Leaf" THEN Walker(None, M.root.body[1])
    ELSE Walker(Some(M.root.body[1]), NoLeaf)

\* A call is made on both maps.  What it will return, and the maps as it
\* will leave them, are in out from the start: nothing but the call decides
\* them.
WalkCall(op, k, v) ==
    /\ last.op = "none"
    /\ LET made(g, f) ==
               last' = [op |-> op, key |-> k, val |-> v, phase |-> "called",
                        g |-> Map_walk(gmap, gheap, op, k), f |-> BTreeMap_walk(fmap),
                        out |-> [g |-> g, f |-> f]]
           read(g, f) ==
               made([map |-> gmap, heap |-> gheap, res |-> g.res, fault |-> g.fault],
                    [map |-> fmap, heap |-> fheap, res |-> f.res, fault |-> f.fault])
       IN IF op = "insert"
          THEN made(Map_insert_entry(gmap, gheap, <<k, v>>),
                    BTreeMap_insert_entry(fmap, fheap, <<k, v>>))
          ELSE IF op = "remove"
          THEN made(Map_remove_entry(gmap, gheap, k),
                    BTreeMap_remove_entry(fmap, fheap, k))
          ELSE read(Map_entry(gmap, gheap, k), BTreeMap_entry(fmap, fheap, k))
    /\ UNCHANGED <<gmap, gheap, fmap, fheap, ref, keys>>

\* Each call that is on its way down enters one more node or its leaf
WalkDown ==
    /\ last.op # "none" /\ last.phase = "called"
    /\ last.g.state = "down" \/ last.f.state = "down"
    /\ last' = [last EXCEPT
                  !.g = IF last.g.state # "down" THEN last.g
                        ELSE IF IsSome(last.g.node)
                        THEN Internal_descend(gheap, last.g, last.op, last.key)
                        ELSE Walker_leaf(last.g),
                  !.f = IF last.f.state # "down" THEN last.f
                        ELSE IF IsSome(last.f.node)
                        THEN InternalNode_descend(fheap, last.f, last.op, last.key)
                        ELSE Walker_leaf(last.f)]
    /\ UNCHANGED <<gmap, gheap, fmap, fheap, ref, keys>>

\* Each call that is on its way up returns from one more node
WalkUp ==
    /\ last.op # "none" /\ last.phase = "called"
    /\ last.g.state = "up" /\ last.f.state = "up"
    /\ last.g.back < Len(last.g.path) \/ last.f.back < Len(last.f.path)
    /\ last' = [last EXCEPT
                  !.g.back = IF @ < Len(last.g.path) THEN @ + 1 ELSE @,
                  !.f.back = IF @ < Len(last.f.path) THEN @ + 1 ELSE @]
    /\ UNCHANGED <<gmap, gheap, fmap, fheap, ref, keys>>

\* Both calls return from the root: the maps are as the call leaves them
WalkReturn ==
    /\ last.op # "none" /\ last.phase = "called"
    /\ last.g.state = "up" /\ last.f.state = "up"
    /\ last.g.back = Len(last.g.path) /\ last.f.back = Len(last.f.path)
    /\ gmap' = last.out.g.map /\ gheap' = last.out.g.heap
    /\ fmap' = last.out.f.map /\ fheap' = last.out.f.heap
    /\ ref' = [ref EXCEPT ![last.key] = IF last.op = "insert" THEN last.val
                                        ELSE IF last.op = "remove" THEN Absent
                                        ELSE @]
    /\ last' = [last EXCEPT !.phase = "returned"]
    /\ UNCHANGED keys

WalkNext ==
    \/ \E k \in AllKeys, v \in Values : WalkCall("insert", k, v)
    \/ \E k \in AllKeys : WalkCall("remove", k, 0) \/ WalkCall("get", k, 0)
    \/ WalkDown
    \/ WalkUp
    \/ WalkReturn

\* A call that has been made goes on to its return: get, insert and remove
\* run synchronously and wait for nothing.  Whether a call is made is up to
\* the caller.
WalkSpec == Init /\ [][WalkNext]_vars /\ WF_vars(WalkDown \/ WalkUp \/ WalkReturn)

\* The levels of a tree from the leaves up: the entries of each leaf, then
\* for each level of nodes the number of children of each node
RECURSIVE Internal_levels(_, _)
Internal_levels(H, nodes) ==
    LET fans == [i \in 1..Len(nodes) |-> Len(nodes[i].children)]
        kids == Concat([i \in 1..Len(nodes) |-> nodes[i].children])
    IN IF nodes[1].kind = "Leaf"
       THEN <<[i \in 1..Len(kids) |-> H[kids[i]].entries], fans>>
       ELSE Internal_levels(H, kids) \o <<fans>>
Map_levels(M, H) == IF IsSome(M.root) THEN Internal_levels(H, <<M.root[1]>>) ELSE <<>>

RECURSIVE InternalNode_levels(_, _)
InternalNode_levels(H, nodes) ==
    LET fans == [i \in 1..Len(nodes) |-> Len(nodes[i].children)]
        kids == Concat([i \in 1..Len(nodes) |-> nodes[i].children])
    IN IF IsSome(kids[1].internal)
       THEN InternalNode_levels(H, [i \in 1..Len(kids) |-> kids[i].internal[1]])
                \o <<fans>>
       ELSE <<[i \in 1..Len(kids) |-> H[kids[i].head_leaf].entries], fans>>
BTreeMap_levels(M, H) ==
    IF M.root.tag = "Empty" THEN <<>>
    ELSE IF M.root.tag = "Leaf" THEN <<<<H[M.root.body[1]].entries>>>>
    ELSE InternalNode_levels(H, <<M.root.body[1]>>)

\* The sequences x and y are equal but for at most `from` neighbours of x
\* that at most `to` neighbours of y stand for
CommonPrefix(x, y) ==
    CHOOSE n \in 0..Len(x) :
        /\ n <= Len(y) /\ \A i \in 1..n : x[i] = y[i]
        /\ n = Len(x) \/ n = Len(y) \/ x[n + 1] # y[n + 1]
CommonSuffix(x, y, n) ==
    CHOOSE m \in 0..(Len(x) - n) :
        /\ m <= Len(y) - n /\ \A i \in 1..m : x[Len(x) - i + 1] = y[Len(y) - i + 1]
        /\ m = Len(x) - n \/ m = Len(y) - n \/ x[Len(x) - m] # y[Len(y) - m]
Edited(x, y, from, to) ==
    LET n == CommonPrefix(x, y)
        m == CommonSuffix(x, y, n)
    IN Len(x) - n - m <= from /\ Len(y) - n - m <= to

\* The levels `after` are those of `before` after one insert: at most one
\* node more on each level, one node of a level changed or made two; after
\* one remove: at most one node less on each level, at most two neighbours
\* of a level changed or made one
Inserted(before, after) ==
    /\ Len(after) >= Len(before)
    /\ \A i \in 1..Len(after) :
          IF i <= Len(before)
          THEN /\ Len(after[i]) - Len(before[i]) \in {0, 1}
               /\ Edited(before[i], after[i], 1, 2)
          ELSE Len(after[i]) = 1
Removed(before, after) ==
    /\ Len(after) <= Len(before)
    /\ \A i \in 1..Len(before) :
          IF i <= Len(after)
          THEN /\ Len(before[i]) - Len(after[i]) \in {0, 1}
               /\ Edited(before[i], after[i], 2, 2)
          ELSE Len(before[i]) = 1

\* The leaves of H that differ in H2
Changed(H, H2) == {h \in Handles : H[h] # H2[h]}

\* The leaves i - 1, i and i + 1 of the sequence leaves, if h is leaf i
Around(leaves, h) ==
    {leaves[i] : i \in {j \in 1..Len(leaves) :
                           \E k \in {j - 1, j, j + 1} :
                               k \in 1..Len(leaves) /\ leaves[k] = h}}

\* What a call that returns has done to both maps
C28_Step ==
    (last.op # "none" /\ last.phase = "called" /\ last'.phase = "returned") =>
        LET gd == Changed(gheap, gheap')
            fd == Changed(fheap, fheap')
        IN /\ ~last.out.g.fault /\ ~last.out.f.fault
           /\ last.op = "get" =>
                 /\ gd = {} /\ fd = {} /\ gmap' = gmap /\ fmap' = fmap
                 /\ IsSome(last.out.g.res) =>
                       \E i \in 1..Len(gheap[last.g.leaf].entries) :
                           gheap[last.g.leaf].entries[i][1] = last.key
                 /\ IsSome(last.out.f.res) =>
                       \E i \in 1..Len(fheap[last.f.leaf].entries) :
                           fheap[last.f.leaf].entries[i][1] = last.key
           /\ last.op = "insert" =>
                 /\ Inserted(Map_levels(gmap, gheap), Map_levels(gmap', gheap'))
                 /\ Inserted(BTreeMap_levels(fmap, fheap), BTreeMap_levels(fmap', fheap'))
                 /\ gd \subseteq IF last.g.leaf = NoLeaf THEN {Alloc(gheap)}
                                 ELSE {last.g.leaf, Alloc(gheap), gheap[last.g.leaf].next}
                 /\ fd \subseteq IF last.f.leaf = NoLeaf THEN {Alloc(fheap)}
                                 ELSE {last.f.leaf, Alloc(fheap), fheap[last.f.leaf].next}
           /\ last.op = "remove" =>
                 /\ Removed(Map_levels(gmap, gheap), Map_levels(gmap', gheap'))
                 /\ Removed(BTreeMap_levels(fmap, fheap), BTreeMap_levels(fmap', fheap'))
                 /\ Cardinality(gd) <= 2 /\ Cardinality(fd) <= 2
                 /\ gd \subseteq Around(Map_leaves(gmap), last.g.leaf)
                 /\ fd \subseteq Around(BTreeMap_leaves(fmap), last.f.leaf)
                 /\ IsSome(last.out.g.res) => last.g.leaf \in gd
                 /\ IsSome(last.out.f.res) => last.f.leaf \in fd

\* Where a call is: it has entered one node on each level it has reached,
\* each a child of the one before, and at most one leaf; it has returned
\* from no more nodes than it has entered
Walked(w, root, height, leaves) ==
    /\ Len(w.path) <= height /\ w.back <= Len(w.path)
    /\ w.path # <<>> => w.path[1] = root[1]
    /\ w.state = "up" => ~IsSome(w.node) /\ w.toleaf = NoLeaf
    /\ w.leaf # NoLeaf => \E i \in 1..Len(leaves) : leaves[i] = w.leaf
    /\ Len(w.path) + w.back + (IF w.leaf = NoLeaf THEN 0 ELSE 1) <= 2 * height + 1

C28_Walk ==
    (last.op # "none" /\ last.phase = "called") =>
        /\ Walked(last.g, gmap.root, Map_height(gmap), Map_leaves(gmap))
        /\ \A i \in 1..(Len(last.g.path) - 1) :
              /\ last.g.path[i].kind = "Internal"
              /\ \E j \in 1..Len(last.g.path[i].children) :
                    last.g.path[i].children[j] = last.g.path[i + 1]
        /\ (last.g.leaf # NoLeaf \/ last.g.toleaf # NoLeaf) =>
              /\ Len(last.g.path) = Map_height(gmap)
              /\ \E j \in 1..Len(VecLast(last.g.path).children) :
                    VecLast(last.g.path).children[j] \in {last.g.leaf, last.g.toleaf}
        /\ Walked(last.f, IF fmap.root.tag = "Internal" THEN fmap.root.body ELSE None,
                  BTreeMap_height(fmap), BTreeMap_leaves(fmap))
        /\ \A i \in 1..(Len(last.f.path) - 1) :
              \E j \in 1..Len(last.f.path[i].children) :
                  last.f.path[i].children[j].internal = Some(last.f.path[i + 1])
        /\ last.f.toleaf # NoLeaf =>
              /\ Len(last.f.path) = BTreeMap_height(fmap)
              /\ last.f.path # <<>> =>
                    \E j \in 1..Len(VecLast(last.f.path).children) :
                        VecLast(last.f.path).children[j] = LeafChild(last.f.toleaf)

\* C28 as stated, for a call on a map that is not empty: the call goes down
\* through one child of every level and reaches a leaf.
C28_ToLeaf ==
    (/\ last.op # "none" /\ last.phase = "called"
     /\ last.g.state = "up" /\ last.f.state = "up") =>
        /\ IsSome(gmap.root) =>
              last.g.leaf # NoLeaf /\ Len(last.g.path) = Map_height(gmap)
        /\ fmap.root.tag # "Empty" =>
              last.f.leaf # NoLeaf /\ Len(last.f.path) = BTreeMap_height(fmap)

\* C28: every get, insert and remove returns.  On its way down it enters at
\* most one node of each level, each a child of the one before, and at most
\* one leaf; it enters no leaf when the map is empty or when a get or remove
\* of the capacity-parameterized map finds the key below the first key of
\* the map or above the last key of the node it is in, and an insert of the
\* fixed-capacity map that finds the key to be the first key of a child
\* replaces that entry in the child's head_leaf without going further down.
\* It returns from each node it entered once, so it touches at most
\* 2 * height + 1 nodes.  A get changes nothing; an insert changes or splits
\* at most one node of each level and only the leaf it reached, its new
\* sibling and the prev of the leaf after; a remove changes at most two
\* neighbouring nodes of each level, merging at most one pair, and at most
\* two leaves next to each other.
C28_Bounded ==
    /\ [][C28_Step]_vars
    /\ []C28_Walk
    /\ (last.op # "none") ~> (last.op # "none" /\ last.phase = "returned")

\* C28 is exercised: an insert has gone down two levels to a leaf and has
\* returned; it split the leaf and the node above it, and the root has one
\* child more.
C28_Witness ==
    /\ last.op = "insert" /\ last.phase = "returned"
    /\ Len(last.g.path) = 2 /\ last.g.leaf # NoLeaf /\ last.g.back = 2
    /\ Len(last.f.path) = 2 /\ last.f.leaf # NoLeaf /\ last.f.back = 2
    /\ Len(gmap.root[1].children) = Len(last.g.path[1].children) + 1
    /\ Len(fmap.root.body[1].children) = Len(last.f.path[1].children) + 1

\* C28 is exercised: a remove has gone down three levels and has returned;
\* it merged two leaves and two nodes on each level, and the height is 2.
C28_RemoveWitness ==
    /\ last.op = "remove" /\ last.phase = "returned"
    /\ Len(last.g.path) = 3 /\ last.g.leaf # NoLeaf /\ Map_height(gmap) = 2
    /\ Len(last.f.path) = 3 /\ last.f.leaf # NoLeaf /\ BTreeMap_height(fmap) = 2

\* C28 is exercised: a get of a key above the last key of the map has
\* returned from the root of the capacity-parameterized map without
\* entering a leaf, and from a leaf of the fixed-capacity map.
C28_MissWitness ==
    /\ last.op = "get" /\ last.phase = "returned"
    /\ Len(last.g.path) = 1 /\ last.g.leaf = NoLeaf /\ Map_height(gmap) >= 2
    /\ Len(last.f.path) = BTreeMap_height(fmap) /\ last.f.leaf # NoLeaf

\* C28 is exercised: an insert of the first key of the second child of the
\* root of a fixed-capacity map of height 3 has replaced the entry from the
\* root.
C28_HeadWitness ==
    /\ last.op = "insert" /\ last.phase = "returned"
    /\ Len(last.f.path) = 1 /\ last.f.leaf # NoLeaf /\ BTreeMap_height(fmap) = 3
    /\ Len(last.g.path) = 3 /\ Map_height(gmap) = 3

====
